---- MODULE Spec2Model ----
(***************************************************************************)
(* Model of the heuristic structural extractor of loc-rs                   *)
(* (src/src/extractors/): the boundary resolvers, the parameter parser,    *)
(* the complexity estimator, the line map and the per-language extractors. *)
(*                                                                         *)
(* Text is a sequence of one-character strings; a file's content contains  *)
(* "\n" characters and is split into lines as str::lines() splits it.      *)
(***************************************************************************)
EXTENDS Integers, Sequences, FiniteSets, TLC

VARIABLES
    pc,          \* "ready" before the operation under study ran, "done" after
    path,        \* the file name of the path handed to get_extractor
    content,     \* the file text handed to an extractor or split into lines
    ext,         \* the lowercased extension that selects the extractor
    functions,   \* the Vec<FunctionInfo> an extractor returned
    lines,       \* the &[&str] handed to a boundary resolver
    start_line,  \* the 1-based signature line handed to a resolver
    base_indent, \* the signature's indentation (indentation resolvers)
    line_end,    \* the line a resolver returned
    raw,         \* the raw parameter substring handed to parse_params
    params,      \* the Vec<String> parse_params returned
    block,       \* the &[&str] handed to estimate_complexity
    cc,          \* the u32 estimate_complexity returned
    line_map,    \* the offsets of a LineMap
    byte_offset, \* the byte offset handed to offset_to_line
    line_number, \* the line offset_to_line returned
    docstring,   \* the docstring of a FunctionInfo, an Option<String>
    truncated,   \* what truncated_docstring returned
    files,       \* the paths get_git_files or get_manual_files returned
    disk,        \* what each path holds on disk
    parallel,    \* ScanConfig::parallel
    file_infos   \* the Vec<FileInfo> of the ScanResult

\* the state of the line map under study
map_vars == <<line_map, byte_offset, line_number>>

\* the state of the docstring under study
doc_vars == <<docstring, truncated>>

\* the state of the scan under study
scan_vars == <<files, disk, parallel, file_infos>>

vars == <<pc, path, content, ext, functions, lines, start_line, base_indent,
          line_end, raw, params, block, cc, map_vars, doc_vars, scan_vars>>

\* no line map was built
NoMap == line_map = <<>> /\ byte_offset = 0 /\ line_number = 0

\* no docstring is under study
NoDoc == docstring = <<>> /\ truncated = <<>>

\* no scan is under study
NoScan ==
    files = <<>> /\ disk = <<>> /\ parallel = FALSE /\ file_infos = <<>>

-----------------------------------------------------------------------------
(* Characters and std string helpers                                       *)

DQ == "\""
SQ == "'"
\* the backtick character (written out: the lexer reserves it)
BT == "BACKTICK"
BS == "\\"
NL == "\n"

\* char::is_whitespace restricted to the characters the model uses
WhiteSpace == {" ", "\t", "\n", "\r"}

Min(a, b) == IF a <= b THEN a ELSE b

Max(a, b) == IF a >= b THEN a ELSE b

\* s[from..] (1-based, from may be Len(s)+1)
Drop(s, n) == SubSeq(s, n + 1, Len(s))

Take(s, n) == SubSeq(s, 1, n)

\* number of leading whitespace characters
RECURSIVE LeadingWs(_)
LeadingWs(s) ==
    IF s # <<>> /\ Head(s) \in WhiteSpace THEN 1 + LeadingWs(Tail(s)) ELSE 0

RECURSIVE TrailingWs(_)
TrailingWs(s) ==
    IF s # <<>> /\ s[Len(s)] \in WhiteSpace
    THEN 1 + TrailingWs(Take(s, Len(s) - 1)) ELSE 0

TrimStart(s) == Drop(s, LeadingWs(s))

TrimEnd(s) == Take(s, Len(s) - TrailingWs(s))

Trim(s) == TrimEnd(TrimStart(s))

StartsWith(s, p) == Len(p) <= Len(s) /\ Take(s, Len(p)) = p

EndsWith(s, p) == Len(p) <= Len(s) /\ Drop(s, Len(s) - Len(p)) = p

\* the 1-based positions at which pattern p occurs in s
Occurrences(s, p) ==
    {i \in 1..(Len(s) - Len(p) + 1) : SubSeq(s, i, i + Len(p) - 1) = p}

Contains(s, p) == Occurrences(s, p) # {}

SetMin(S) == CHOOSE x \in S : \A y \in S : x <= y

SetMax(S) == CHOOSE x \in S : \A y \in S : x >= y

\* str::lines(): split at "\n", drop a "\r" that precedes the "\n", and do not
\* yield a final empty line.  Written over the positions of the line ends so
\* that a long text is split without deep recursion.
Lines(text) ==
    LET n    == Len(text)
        nls  == {i \in 1..n : text[i] = NL}
        ends == nls \cup (IF n > 0 /\ text[n] # NL THEN {n + 1} ELSE {})
        kth(k) == CHOOSE e \in ends : Cardinality({j \in ends : j < e}) = k - 1
        first(k) == IF k = 1 THEN 1 ELSE kth(k - 1) + 1
        cut(k) == IF /\ kth(k) \in nls /\ kth(k) > first(k)
                     /\ text[kth(k) - 1] = "\r"
                  THEN kth(k) - 2 ELSE kth(k) - 1
    IN  [k \in 1..Cardinality(ends) |-> SubSeq(text, first(k), cut(k))]

\* lines joined by "\n" (the inverse of Lines on texts without a final "\n")
RECURSIVE JoinRange(_, _, _)
JoinRange(ls, lo, hi) ==
    IF lo > hi THEN <<>>
    ELSE IF lo = hi THEN ls[lo]
    ELSE LET mid == (lo + hi) \div 2
         IN  JoinRange(ls, lo, mid) \o <<NL>> \o JoinRange(ls, mid + 1, hi)

JoinNl(ls) == JoinRange(ls, 1, Len(ls))

\* all sequences over S of length at most n
SeqUpTo(S, n) == UNION {[1..k -> S] : k \in 0..n}

-----------------------------------------------------------------------------
(* find_closing_brace (extractors/mod.rs)                                  *)

\* the fallback span of find_closing_brace
FallbackSpan == 80

\* the look-ahead window in which a closing ' makes a char literal
CharLitWindow == 12

\* distance from position k to the next ' after it (0 when there is none)
NextQuoteDist(line, k) ==
    LET later == {j \in (k + 1)..Len(line) : line[j] = SQ}
    IN  IF later = {} THEN 0 ELSE SetMin(later) - k

\* the scanner's locals at the start of a call, and the position of the
\* char iterator: skip (an escape has consumed the next character), brk (the
\* rest of the line is a comment) and ret (the function has returned)
ScanInit ==
    [depth |-> 0, started |-> FALSE, in_string |-> FALSE, string_char |-> " ",
     escaped_eol |-> FALSE, skip |-> FALSE, brk |-> FALSE, ret |-> FALSE,
     at |-> 0]

\* the test made on a "}": `depth -= 1; if started && depth <= 0`
ClosesBody_NoStarted(st) == st.depth - 1 <= 0

ClosesBody(st) == st.started /\ st.depth - 1 <= 0

\* a scanner for which no "/" opens a comment
LineComment_Never(line, k) == FALSE

\* `'/' if chars.peek() == Some(&'/')`: a line comment opens at position k
LineComment(line, k) ==
    line[k] = "/" /\ k + 1 <= Len(line) /\ line[k + 1] = "/"

\* a scanner that keeps its string state at the end of every line
ResetsAtEol_Never(st) == FALSE

\* `if in_string && !escaped_eol && string_char != '`'` at the end of a line
ResetsAtEol(st) == st.in_string /\ ~st.escaped_eol /\ st.string_char # BT

\* one iteration of `while let Some(ch) = chars.next()`: the character at
\* position k of the line
ScanChar(line, k, st) ==
    LET ch == line[k] IN
    IF st.ret \/ st.brk THEN st
    ELSE IF st.skip THEN [st EXCEPT !.skip = FALSE]
    ELSE IF st.in_string THEN
        IF ch = BS THEN
            IF k + 1 > Len(line)
            THEN [st EXCEPT !.escaped_eol = TRUE]
            ELSE [st EXCEPT !.skip = TRUE]
        ELSE IF ch = st.string_char
             THEN [st EXCEPT !.in_string = FALSE]
             ELSE st
    ELSE IF ch = DQ \/ ch = BT THEN
        [st EXCEPT !.in_string = TRUE, !.string_char = ch]
    ELSE IF ch = SQ THEN
        LET dist == NextQuoteDist(line, k) IN
        IF dist > 0 /\ dist < CharLitWindow
        THEN [st EXCEPT !.in_string = TRUE, !.string_char = ch]
        ELSE st
    ELSE IF LineComment(line, k)
         THEN [st EXCEPT !.brk = TRUE]
    ELSE IF ch = "{" THEN [st EXCEPT !.depth = @ + 1, !.started = TRUE]
    ELSE IF ch = "}" THEN
        IF ClosesBody(st)
        THEN [st EXCEPT !.depth = @ - 1, !.ret = TRUE]
        ELSE [st EXCEPT !.depth = @ - 1]
    ELSE st

\* the `while let` loop over the characters lo..hi of the line, in order
\* (the first half, then the second half from the state the first one left)
RECURSIVE ScanChars(_, _, _, _)
ScanChars(line, lo, hi, st) ==
    IF lo > hi THEN st
    ELSE IF lo = hi THEN ScanChar(line, lo, st)
    ELSE LET mid  == (lo + hi) \div 2
             left == ScanChars(line, lo, mid, st)
         IN  IF left.ret \/ left.brk THEN left
             ELSE ScanChars(line, mid + 1, hi, left)

\* one iteration of the `for (i, line)` loop, on line n: scan the line, then
\* reset the string state unless the line ended in an escape or inside a
\* backtick string
ScanLine(ls, n, st) ==
    LET s0 == [st EXCEPT !.escaped_eol = FALSE, !.skip = FALSE, !.brk = FALSE]
        s1 == ScanChars(ls[n], 1, Len(ls[n]), s0)
    IN  IF st.ret THEN st
        ELSE IF s1.ret THEN [s1 EXCEPT !.at = n]
        ELSE IF ResetsAtEol(s1)
             THEN [s1 EXCEPT !.in_string = FALSE]
             ELSE s1

\* the value returned when the loop ends without a return
BraceFallback_NoCap(ls, sl) == sl + FallbackSpan

BraceFallback(ls, sl) == Min(sl + FallbackSpan, Len(ls))

\* the `for` loop over the lines lo..hi, in order
RECURSIVE BraceLoop(_, _, _, _)
BraceLoop(ls, lo, hi, st) ==
    IF lo > hi THEN st
    ELSE IF lo = hi THEN ScanLine(ls, lo, st)
    ELSE LET mid  == (lo + hi) \div 2
             left == BraceLoop(ls, lo, mid, st)
         IN  IF left.ret THEN left ELSE BraceLoop(ls, mid + 1, hi, left)

\* the scanner of the former single-file extractor: every brace counts
RECURSIVE LegacyScanChars(_, _, _)
LegacyScanChars(line, k, st) ==
    IF k > Len(line) THEN st
    ELSE IF line[k] = "{"
         THEN LegacyScanChars(line, k + 1,
                              [st EXCEPT !.depth = @ + 1, !.started = TRUE])
    ELSE IF line[k] = "}"
         THEN IF st.started /\ st.depth - 1 <= 0
              THEN [st EXCEPT !.depth = @ - 1, !.ret = TRUE]
              ELSE LegacyScanChars(line, k + 1, [st EXCEPT !.depth = @ - 1])
    ELSE LegacyScanChars(line, k + 1, st)

RECURSIVE LegacyBraceLoop(_, _, _, _)
LegacyBraceLoop(ls, sl, n, st) ==
    IF n > Len(ls) THEN Min(sl + FallbackSpan, Len(ls))
    ELSE LET s1 == LegacyScanChars(ls[n], 1, st)
         IN  IF s1.ret THEN sl + (n - Max(sl, 1))
             ELSE LegacyBraceLoop(ls, sl, n + 1, s1)

legacy_find_closing_brace(ls, sl) ==
    LegacyBraceLoop(ls, sl, Max(sl, 1), ScanInit)

\* find_closing_brace without its literal and comment tracking
find_closing_brace_NoLiterals(ls, sl) == legacy_find_closing_brace(ls, sl)

\* `return start_line + i` from the line of index i after
\* start_line.saturating_sub(1), or the fallback
find_closing_brace(ls, sl) ==
    LET s == BraceLoop(ls, Max(sl, 1), Len(ls), ScanInit)
    IN  IF s.ret THEN sl + (s.at - Max(sl, 1)) ELSE BraceFallback(ls, sl)

-----------------------------------------------------------------------------
(* The brace resolver applied to bounded texts                             *)

\* longest text enumerated character by character
MaxTextLen == 5

\* most lines taken from the line library in one text
MaxLibLines == 3

\* largest signature line tried in one text
MaxStart == 3

\* how far the long texts reach on either side of the fallback span
LongSlack == 2

BraceAlphabet == {"{", "}", DQ, "/", "x", NL}

\* lines that exercise each arm of the scanner
BraceLineLib ==
    { <<"{">>, <<"}">>, <<"x">>,
      <<"s", "=", DQ, "}", DQ>>,
      <<SQ, "}", SQ>>,
      <<BT, "}">>,
      <<BT>>,
      <<DQ, "}", BS>>,
      <<"}", DQ>>,
      <<"/", "/", "}">>,
      <<DQ, "/", "/", DQ, "}">>,
      <<DQ, BS, DQ, "}", DQ>> }

\* test_find_closing_brace_robust
RobustExample ==
    << <<"f", "n", " ", "h", "e", "l", "l", "o", "(", ")", " ", "{">>,
       <<" ", " ", "l", "e", "t", " ", "x", " ", "=", " ", DQ, "}", DQ, ";",
         " ", "/", "/", " ", "f", "a", "l", "s", "e", " ", "b", "r", "a", "c",
         "e">>,
       <<" ", " ", "i", "f", " ", "t", "r", "u", "e", " ", "{">>,
       <<" ", " ", " ", " ", "p", "r", "i", "n", "t", "l", "n", "!", "(", DQ,
         "{", "}", DQ, ",", " ", "x", ")", ";">>,
       <<" ", " ", "}">>,
       <<"}">> >>

\* a body of n lines opened on line 1 and closed on line c (never, when c = 0)
LongBody(n, c) ==
    [i \in 1..n |-> IF i = 1 THEN <<"{">> ELSE IF i = c THEN <<"}">> ELSE <<"x">>]

LongTexts ==
    { JoinNl(LongBody(n, c)) :
        n \in (FallbackSpan - LongSlack)..(FallbackSpan + 1 + LongSlack),
        c \in {0} \cup ((FallbackSpan - LongSlack)..(FallbackSpan + 1 + LongSlack)) }

BraceTexts ==
    SeqUpTo(BraceAlphabet, MaxTextLen)
    \cup { JoinNl(ls) : ls \in SeqUpTo(BraceLineLib, MaxLibLines) }
    \cup { JoinNl(RobustExample) }
    \cup LongTexts

Idle ==
    /\ ext = "" /\ functions = <<>>
    /\ base_indent = 0 /\ line_end = 0
    /\ raw = <<>> /\ params = <<>>
    /\ block = <<>> /\ cc = 0

InitBrace ==
    /\ pc = "ready" /\ path = <<>> /\ NoMap /\ NoDoc /\ NoScan
    /\ content \in BraceTexts
    /\ lines = Lines(content)
    /\ start_line \in 1..Min(Len(lines), MaxStart)
    /\ Idle

FindClosingBrace ==
    /\ pc = "ready"
    /\ line_end' = find_closing_brace(lines, start_line)
    /\ pc' = "done"
    /\ UNCHANGED <<map_vars, doc_vars, scan_vars, path, content, ext, functions, lines, start_line, base_indent,
                   raw, params, block, cc>>

NextBrace == FindClosingBrace

SpecBrace == InitBrace /\ [][NextBrace]_vars

(* Reference reading of a line that holds no apostrophe, backtick or       *)
(* backslash: a position is inside a literal when an odd number of double  *)
(* quotes precede it, and in a comment when it follows the first // that   *)
(* an even number of double quotes precede.                                *)

PlainQuoting(ls) ==
    \A n \in 1..Len(ls) : \A p \in 1..Len(ls[n]) : ls[n][p] \notin {SQ, BT, BS}

QuotesBefore(line, p) == Cardinality({q \in 1..(p - 1) : line[q] = DQ})

CommentStart(line) ==
    LET cs == {q \in 1..(Len(line) - 1) :
                  /\ line[q] = "/" /\ line[q + 1] = "/"
                  /\ QuotesBefore(line, q) % 2 = 0}
    IN  IF cs = {} THEN Len(line) + 1 ELSE SetMin(cs)

InDoubleQuotes(line, p) ==
    /\ p < CommentStart(line)
    /\ line[p] # DQ
    /\ QuotesBefore(line, p) % 2 = 1

\* the braces of lines sl.. that lie outside literals and comments
Counted(ls, sl, b) ==
    {pos \in UNION {{<<n, p>> : p \in 1..Len(ls[n])} : n \in sl..Len(ls)} :
        /\ ls[pos[1]][pos[2]] = b
        /\ pos[2] < CommentStart(ls[pos[1]])
        /\ QuotesBefore(ls[pos[1]], pos[2]) % 2 = 0}

Before(a, b) == a[1] < b[1] \/ (a[1] = b[1] /\ a[2] < b[2])

\* the closing braces at which the depth is <= 0 after some brace was opened
ClosingPositions(ls, sl) ==
    LET opens  == Counted(ls, sl, "{")
        closes == Counted(ls, sl, "}")
    IN  {c \in closes :
            /\ \E o \in opens : Before(o, c)
            /\ Cardinality({o \in opens : Before(o, c)})
                 - Cardinality({d \in closes : Before(d, c)}) - 1 <= 0}

ClosingLines(ls, sl) == {c[1] : c \in ClosingPositions(ls, sl)}

\* C3: on a text without apostrophes, backticks and backslashes, the scanner
\* returns the first line on which a "}" outside literals and comments brings
\* the depth to <= 0 after a "{" was counted; a "}" met before any "{" never
\* ends the body.
C3_FirstClosingLine ==
    (pc = "done" /\ PlainQuoting(lines) /\ ClosingLines(lines, start_line) # {})
        => line_end = SetMin(ClosingLines(lines, start_line))

\* a body closed below its first line, with a "}" before the first "{"
C3_Witness ==
    /\ pc = "done" /\ PlainQuoting(lines)
    /\ ClosingLines(lines, start_line) # {}
    /\ line_end > start_line
    /\ \E c \in Counted(lines, start_line, "}") :
          \A o \in Counted(lines, start_line, "{") : Before(c, o)

\* a line with every brace that lies inside a double-quoted literal or in a
\* line comment replaced by a neutral character
MaskLine(line) ==
    [p \in 1..Len(line) |->
        IF /\ line[p] \in {"{", "}"}
           /\ (InDoubleQuotes(line, p) \/ p >= CommentStart(line))
        THEN "x" ELSE line[p]]

MaskLiterals(ls) == [n \in 1..Len(ls) |-> MaskLine(ls[n])]

\* C2: find_closing_brace ignores every brace inside a double-quoted literal:
\* it returns the line a scan that counts every brace returns on the text
\* with the braces inside literals (and comments) masked out, and line 6 for
\* the six-line example whose second line holds "}".
C2_IgnoresBracesInStrings ==
    /\ (pc = "done" /\ PlainQuoting(lines))
          => line_end = legacy_find_closing_brace(MaskLiterals(lines), start_line)
    /\ (pc = "done" /\ lines = RobustExample /\ start_line = 1) => line_end = 6

\* the example is resolved to line 6 where counting every brace gives line 2
C2_Witness ==
    /\ pc = "done" /\ lines = RobustExample /\ start_line = 1
    /\ line_end = 6
    /\ legacy_find_closing_brace(lines, start_line) = 2

\* C4 as claimed: when the depth has not returned to <= 0 within the 80 lines
\* after the signature line the result is min(start_line + 80, lines), so no
\* result lies more than 80 lines below the signature.
C4_NeverBeyondSpan ==
    (pc = "done" /\ PlainQuoting(lines)) =>
        /\ line_end <= start_line + FallbackSpan
        /\ (\A c \in ClosingLines(lines, start_line) : c > start_line + FallbackSpan)
              => line_end = Min(start_line + FallbackSpan, Len(lines))

\* C4 (amended): the fallback min(start_line + 80, lines) is returned exactly
\* when the depth returns to <= 0 on no line up to the end of the file; a
\* result more than 80 lines below the signature is the line of a closing
\* brace.
C4_FallbackAtEndOfFile ==
    (pc = "done" /\ PlainQuoting(lines)) =>
        /\ ClosingLines(lines, start_line) = {}
              => line_end = Min(start_line + FallbackSpan, Len(lines))
        /\ line_end > start_line + FallbackSpan
              => line_end \in ClosingLines(lines, start_line)

\* an unclosed body in a file that is longer than the span: the span decides
C4_Witness ==
    /\ pc = "done" /\ PlainQuoting(lines)
    /\ ClosingLines(lines, start_line) = {}
    /\ Counted(lines, start_line, "{") # {}
    /\ Len(lines) > start_line + FallbackSpan
    /\ line_end = start_line + FallbackSpan

-----------------------------------------------------------------------------
(* The indentation resolvers: find_python_end and find_indentation_end     *)

\* `line.trim().is_empty() || line.trim_start().starts_with('#')`
SkippedLine(line) == Trim(line) = <<>> \/ StartsWith(TrimStart(line), <<"#">>)

\* `line.len() - line.trim_start().len()`
IndentOf(line) == Len(line) - Len(TrimStart(line))

\* `indent <= base_indent`
Dedented_Strict(indent, bi) == indent < bi

Dedented(indent, bi) == indent <= bi

\* `lines.len()`, returned when no line dedents
PythonEof_OnePast(ls) == Len(ls) + 1

PythonEof(ls) == Len(ls)

\* the loop over lines[start_line..]; n is the 1-based line looked at
RECURSIVE PythonEndLoop(_, _, _, _)
PythonEndLoop(ls, sl, bi, n) ==
    IF n > Len(ls) THEN PythonEof(ls)
    ELSE IF SkippedLine(ls[n]) THEN PythonEndLoop(ls, sl, bi, n + 1)
    ELSE IF Dedented(IndentOf(ls[n]), bi) THEN sl + (n - (sl + 1))
    ELSE PythonEndLoop(ls, sl, bi, n + 1)

find_python_end(ls, sl, bi) == PythonEndLoop(ls, sl, bi, sl + 1)

\* `indent <= base_indent` of the Nim resolver
NimDedented(indent, bi) == indent <= bi

RECURSIVE IndentationEndLoop(_, _, _, _)
IndentationEndLoop(ls, sl, bi, n) ==
    IF n > Len(ls) THEN Len(ls)
    ELSE IF SkippedLine(ls[n]) THEN IndentationEndLoop(ls, sl, bi, n + 1)
    ELSE IF NimDedented(IndentOf(ls[n]), bi) THEN sl + (n - (sl + 1))
    ELSE IndentationEndLoop(ls, sl, bi, n + 1)

find_indentation_end(ls, sl, bi) == IndentationEndLoop(ls, sl, bi, sl + 1)

\* def f():
PyDefF ==
    <<"d", "e", "f", " ", "f", "(", ")", ":">>

\*     pass
PyPass ==
    <<" ", " ", " ", " ", "p", "a", "s", "s">>

\* def g():
PyDefG ==
    <<"d", "e", "f", " ", "g", "(", ")", ":">>

\*   # c
PyCommentIn ==
    <<" ", " ", "#", " ", "c">>

\* # c
PyComment0 ==
    <<"#", " ", "c">>

\*   x
PyStmt2 ==
    <<" ", " ", "x">>

\* x
PyStmt0 ==
    <<"x">>

\*    
PyBlank ==
    <<" ", " ", " ">>

\* \tx
PyTabStmt ==
    <<"\t", "x">>

\* (the empty line)
PyEmpty ==
    <<>>

\* most lines of a text handed to an indentation resolver
MaxIndentLines == 3

\* largest base indentation tried
MaxBaseIndent == 2

IndentLineLib ==
    {PyDefF, PyPass, PyDefG, PyCommentIn, PyComment0, PyStmt2, PyStmt0,
     PyBlank, PyTabStmt, PyEmpty}

\* "def f():\n    pass\ndef g():\n    pass"
TwoDefs == <<PyDefF, PyPass, PyDefG, PyPass>>

IndentTexts == (SeqUpTo(IndentLineLib, MaxIndentLines) \ {<<>>}) \cup {TwoDefs}

InitIndent ==
    /\ pc = "ready" /\ path = <<>> /\ NoMap /\ NoDoc /\ NoScan
    /\ lines \in IndentTexts
    /\ content = JoinNl(lines)
    /\ start_line \in 1..Len(lines)
    /\ base_indent \in 0..MaxBaseIndent
    /\ ext = "" /\ functions = <<>> /\ line_end = 0
    /\ raw = <<>> /\ params = <<>> /\ block = <<>> /\ cc = 0

FindPythonEnd ==
    /\ pc = "ready"
    /\ line_end' = find_python_end(lines, start_line, base_indent)
    /\ pc' = "done"
    /\ ext' = ".py"
    /\ UNCHANGED <<map_vars, doc_vars, scan_vars, path, content, functions, lines, start_line, base_indent,
                   raw, params, block, cc>>

FindIndentationEnd ==
    /\ pc = "ready"
    /\ line_end' = find_indentation_end(lines, start_line, base_indent)
    /\ pc' = "done"
    /\ ext' = ".nim"
    /\ UNCHANGED <<map_vars, doc_vars, scan_vars, path, content, functions, lines, start_line, base_indent,
                   raw, params, block, cc>>

NextIndent == FindPythonEnd \/ FindIndentationEnd

SpecIndent == InitIndent /\ [][NextIndent]_vars

(* Reference reading of a line, by positions rather than by trimming       *)

AllBlank(line) == \A p \in 1..Len(line) : line[p] \in WhiteSpace

\* the number of whitespace characters before the first other character
LeadWidth(line) ==
    Cardinality({p \in 1..Len(line) : \A q \in 1..p : line[q] \in WhiteSpace})

CommentOnly(line) ==
    LeadWidth(line) < Len(line) /\ line[LeadWidth(line) + 1] = "#"

\* the lines below the signature that end the block
BlockEnders(ls, sl, bi) ==
    {n \in (sl + 1)..Len(ls) :
        ~AllBlank(ls[n]) /\ ~CommentOnly(ls[n]) /\ LeadWidth(ls[n]) <= bi}

\* C5: for Python and Nim the block ends on the line just before the first
\* line below the signature that is neither blank nor a comment and whose
\* leading whitespace is no wider than the signature's, and on the last line
\* of the file when there is no such line; for "def f(): / pass / def g(): /
\* pass" the first block ends on line 2, before the second def.
C5_BlockEndsBeforeDedent ==
    /\ pc = "done" =>
          line_end = IF BlockEnders(lines, start_line, base_indent) = {}
                     THEN Len(lines)
                     ELSE SetMin(BlockEnders(lines, start_line, base_indent)) - 1
    /\ (pc = "done" /\ lines = TwoDefs /\ start_line = 1 /\ base_indent = 0)
          => line_end = 2

\* the two-def example resolved by the Python resolver
C5_Witness ==
    /\ pc = "done" /\ ext = ".py"
    /\ lines = TwoDefs /\ start_line = 1 /\ base_indent = 0
    /\ line_end = 2 /\ line_end < 3

-----------------------------------------------------------------------------
(* The keyword-depth resolver: find_ruby_end                               *)

RubyOpeners ==
    { <<"d", "e", "f", " ">>, <<"c", "l", "a", "s", "s", " ">>,
      <<"m", "o", "d", "u", "l", "e", " ">>, <<"i", "f", " ">>,
      <<"u", "n", "l", "e", "s", "s", " ">>, <<"w", "h", "i", "l", "e", " ">>,
      <<"f", "o", "r", " ">>, <<"c", "a", "s", "e", " ">>,
      <<"b", "e", "g", "i", "n">> }

\* `openers.iter().any(|&p| t.starts_with(p)) || t.ends_with(" do") || t == "do"`
RubyOpens_NoSignature(t) ==
    \/ \E p \in RubyOpeners \ {<<"d", "e", "f", " ">>} : StartsWith(t, p)
    \/ EndsWith(t, <<" ", "d", "o">>)
    \/ t = <<"d", "o">>

RubyOpens(t) ==
    \/ \E p \in RubyOpeners : StartsWith(t, p)
    \/ EndsWith(t, <<" ", "d", "o">>)
    \/ t = <<"d", "o">>

\* `t == "end" || t.starts_with("end ") || t.ends_with(" end")`
RubyCloses(t) ==
    \/ t = <<"e", "n", "d">>
    \/ StartsWith(t, <<"e", "n", "d", " ">>)
    \/ EndsWith(t, <<" ", "e", "n", "d">>)

\* the loop over lines[start_line - 1..]; n is the 1-based line looked at
RECURSIVE RubyEndLoop(_, _, _, _)
RubyEndLoop(ls, sl, n, depth) ==
    IF n > Len(ls) THEN Len(ls)
    ELSE LET t  == Trim(ls[n])
             d1 == IF RubyOpens(t) THEN depth + 1 ELSE depth
         IN  IF StartsWith(t, <<"#">>) THEN RubyEndLoop(ls, sl, n + 1, depth)
             ELSE IF RubyCloses(t)
                  THEN IF d1 - 1 <= 0 THEN sl + (n - Max(sl, 1))
                       ELSE RubyEndLoop(ls, sl, n + 1, d1 - 1)
                  ELSE RubyEndLoop(ls, sl, n + 1, d1)

find_ruby_end(ls, sl) == RubyEndLoop(ls, sl, Max(sl, 1), 0)

\* def foo
RbDefFoo ==
    <<"d", "e", "f", " ", "f", "o", "o">>

\* class A
RbClassA ==
    <<"c", "l", "a", "s", "s", " ", "A">>

\* module M
RbModuleM ==
    <<"m", "o", "d", "u", "l", "e", " ", "M">>

\*   if x
RbIf ==
    <<" ", " ", "i", "f", " ", "x">>

\*   unless x
RbUnless ==
    <<" ", " ", "u", "n", "l", "e", "s", "s", " ", "x">>

\*   while x
RbWhile ==
    <<" ", " ", "w", "h", "i", "l", "e", " ", "x">>

\*   for i in a
RbFor ==
    <<" ", " ", "f", "o", "r", " ", "i", " ", "i", "n", " ", "a">>

\*   case x
RbCase ==
    <<" ", " ", "c", "a", "s", "e", " ", "x">>

\*   begin
RbBegin ==
    <<" ", " ", "b", "e", "g", "i", "n">>

\*   def bar
RbDefBar ==
    <<" ", " ", "d", "e", "f", " ", "b", "a", "r">>

\*   class B
RbClassB ==
    <<" ", " ", "c", "l", "a", "s", "s", " ", "B">>

\*   module N
RbModuleN ==
    <<" ", " ", "m", "o", "d", "u", "l", "e", " ", "N">>

\*   end
RbEnd ==
    <<" ", " ", "e", "n", "d">>

\* end
RbEnd0 ==
    <<"e", "n", "d">>

\*     1
RbOne ==
    <<" ", " ", " ", " ", "1">>

\* # end
RbCommentEnd ==
    <<"#", " ", "e", "n", "d">>

\* x = 1 if y
RbModifierIf ==
    <<"x", " ", "=", " ", "1", " ", "i", "f", " ", "y">>

\* defined?(x)
RbDefined ==
    <<"d", "e", "f", "i", "n", "e", "d", "?", "(", "x", ")">>

\* ending = 1
RbEnding ==
    <<"e", "n", "d", "i", "n", "g", " ", "=", " ", "1">>

\* most lines of the body of a generated Ruby definition
MaxRubyBody == 4

\* deepest nesting of blocks inside a generated body
MaxRubyDepth == 2

RubySignatures == {RbDefFoo, RbClassA, RbModuleM}

RubyBlockOpeners ==
    {RbIf, RbUnless, RbWhile, RbFor, RbCase, RbBegin, RbDefBar, RbClassB,
     RbModuleN}

\* lines that open or close nothing
RubyPlainLines ==
    {RbOne, RbCommentEnd, RbModifierIf, RbDefined, RbEnding}

\* the well-nested bodies of at most m lines: plain lines and blocks, each
\* block an opener line, a body and its own "end" line
RECURSIVE RubyBodies(_, _)
RubyBodies(d, m) ==
    IF m = 0 THEN {<<>>}
    ELSE {<<>>}
         \cup {<<l>> \o rest : l \in RubyPlainLines, rest \in RubyBodies(d, m - 1)}
         \cup (IF d = 0 \/ m < 2 THEN {}
               ELSE UNION {
                      {<<o>> \o inner \o <<RbEnd>> \o rest :
                          o \in RubyBlockOpeners,
                          rest \in RubyBodies(d, m - 2 - Len(inner))} :
                      inner \in RubyBodies(d - 1, m - 2)})

\* "def foo\n  if x\n    1\n  end\nend"
RubyExample == <<RbDefFoo, RbIf, RbOne, RbEnd, RbEnd0>>

\* what may precede and follow the definition in the file
RubyPrefixes == {<<>>, <<RbClassA>>}

RubySuffixes == {<<>>, <<RbEnd0>>, <<RbDefBar, RbEnd>>}

InitRuby ==
    /\ pc = "ready" /\ path = <<>> /\ NoMap /\ NoDoc /\ NoScan
    /\ \E pre \in RubyPrefixes, sig \in RubySignatures, suf \in RubySuffixes,
          body \in RubyBodies(MaxRubyDepth, MaxRubyBody) :
          /\ lines = pre \o <<sig>> \o body \o <<RbEnd0>> \o suf
          /\ start_line = Len(pre) + 1
          \* the definition itself, from its signature to its own "end"
          /\ block = <<sig>> \o body \o <<RbEnd0>>
    /\ content = JoinNl(lines)
    /\ ext = "" /\ functions = <<>> /\ base_indent = 0 /\ line_end = 0
    /\ raw = <<>> /\ params = <<>> /\ cc = 0

FindRubyEnd ==
    /\ pc = "ready"
    /\ line_end' = find_ruby_end(lines, start_line)
    /\ pc' = "done"
    /\ UNCHANGED <<map_vars, doc_vars, scan_vars, path, content, ext, functions, lines, start_line, base_indent,
                   raw, params, block, cc>>

NextRuby == FindRubyEnd

SpecRuby == InitRuby /\ [][NextRuby]_vars

\* C6: for a def, class or module whose body holds well-nested blocks opened
\* by def, class, module, if, unless, while, for, case or begin lines,
\* find_ruby_end returns the line of the definition's own "end", never the
\* line of an inner "end"; comment-only lines change nothing; "def foo / if x
\* / 1 / end / end" spans lines 1..5.
C6_OwnEnd ==
    /\ pc = "done" => line_end = start_line + Len(block) - 1
    /\ (pc = "done" /\ lines = RubyExample) => (start_line = 1 /\ line_end = 5)

\* the five-line example, whose inner "end" is on line 4
C6_Witness ==
    /\ pc = "done" /\ lines = RubyExample
    /\ start_line = 1 /\ line_end = 5
    /\ RubyCloses(Trim(lines[4]))

-----------------------------------------------------------------------------
(* parse_params (extractors/mod.rs)                                        *)

ParamOpeners == {"<", "[", "("}

ParamClosers == {">", "]", ")"}

Void == <<"v", "o", "i", "d">>

\* `if !trimmed.is_empty() && trimmed != "void" { params.push(trimmed) }`
PushField(ps, cur) ==
    LET trimmed == Trim(cur)
    IN  IF trimmed # <<>> /\ trimmed # Void THEN Append(ps, trimmed) ELSE ps

\* the guard of the `','` arm
SplitsAt(ch, depth) == ch = "," /\ depth = 0

\* one iteration of `for ch in raw.chars()`: the character at position k
ParamsChar(r, k, st) ==
    LET ch == r[k] IN
    IF ch \in ParamOpeners
    THEN [st EXCEPT !.current = Append(@, ch), !.depth = @ + 1]
    ELSE IF ch \in ParamClosers
    THEN [st EXCEPT !.current = Append(@, ch), !.depth = @ - 1]
    ELSE IF SplitsAt(ch, st.depth)
    THEN [st EXCEPT !.params = PushField(@, st.current), !.current = <<>>]
    ELSE [st EXCEPT !.current = Append(@, ch)]

\* the `for` loop over the characters lo..hi, in order
RECURSIVE ParamsLoop(_, _, _, _)
ParamsLoop(r, lo, hi, st) ==
    IF lo > hi THEN st
    ELSE IF lo = hi THEN ParamsChar(r, lo, st)
    ELSE LET mid  == (lo + hi) \div 2
             left == ParamsLoop(r, lo, mid, st)
         IN  \* the first half is computed, then the second half from it
             IF left.depth \in Int THEN ParamsLoop(r, mid + 1, hi, left)
             ELSE left

\* the loop, then the push of the last field
parse_params(r) ==
    LET st == ParamsLoop(r, 1, Len(r),
                         [params |-> <<>>, current |-> <<>>, depth |-> 0])
    IN  PushField(st.params, st.current)

\* longest raw parameter text enumerated character by character
MaxRawLen == 5

ParamAlphabet == {"a", ",", " ", "<", ">", "("}

\* int argc, char** argv
RawArgcArgv ==
    <<"i", "n", "t", " ", "a", "r", "g", "c", ",", " ", "c", "h", "a", "r",
      "*", "*", " ", "a", "r", "g", "v">>

\* a: i32, b: Vec<(u8, u8)>
RawRustTyped ==
    <<"a", ":", " ", "i", "3", "2", ",", " ", "b", ":", " ", "V", "e", "c",
      "<", "(", "u", "8", ",", " ", "u", "8", ")", ">">>

\* id int
RawGoIdInt ==
    <<"i", "d", " ", "i", "n", "t">>

\*  void 
RawVoid ==
    <<" ", "v", "o", "i", "d", " ">>

\* $a = ['k' => 1], $b
RawPhpDefault ==
    <<"$", "a", " ", "=", " ", "[", SQ, "k", SQ, " ", "=", ">", " ", "1",
      "]", ",", " ", "$", "b">>

\* self, x
RawSelf ==
    <<"s", "e", "l", "f", ",", " ", "x">>

RawExamples ==
    {RawArgcArgv, RawRustTyped, RawGoIdInt, RawVoid, RawPhpDefault, RawSelf}

RawTexts == SeqUpTo(ParamAlphabet, MaxRawLen) \cup RawExamples

InitParams ==
    /\ pc = "ready" /\ path = <<>> /\ NoMap /\ NoDoc /\ NoScan
    /\ raw \in RawTexts
    /\ content = <<>> /\ lines = <<>> /\ start_line = 0
    /\ ext = "" /\ functions = <<>> /\ base_indent = 0 /\ line_end = 0
    /\ params = <<>> /\ block = <<>> /\ cc = 0

ParseParams ==
    /\ pc = "ready"
    /\ params' = parse_params(raw)
    /\ pc' = "done"
    /\ UNCHANGED <<map_vars, doc_vars, scan_vars, path, content, ext, functions, lines, start_line, base_indent,
                   line_end, raw, block, cc>>

NextParams == ParseParams

SpecParams == InitParams /\ [][NextParams]_vars

(* Reference reading of a raw parameter text                               *)

\* the number of brackets open at position p: every opener before p that no
\* later closer before p has closed (a closer with nothing open closes nothing)
RECURSIVE OpenBrackets(_, _)
OpenBrackets(r, p) ==
    IF p <= 1 THEN 0
    ELSE LET d == OpenBrackets(r, p - 1) IN
         IF r[p - 1] \in ParamOpeners THEN d + 1
         ELSE IF r[p - 1] \in ParamClosers /\ d > 0 THEN d - 1
         ELSE d

TopLevelCommas(r) ==
    {p \in 1..Len(r) : r[p] = "," /\ OpenBrackets(r, p) = 0}

\* the text between consecutive top-level commas, in source order
TopLevelFields(r) ==
    LET cuts == TopLevelCommas(r) \cup {0, Len(r) + 1}
        kth(k) == CHOOSE c \in cuts : Cardinality({e \in cuts : e < c}) = k
    IN  [k \in 1..(Cardinality(cuts) - 1) |->
            SubSeq(r, kth(k - 1) + 1, kth(k) - 1)]

\* the fields kept: trimmed, neither empty nor "void"
RECURSIVE KeptFields(_)
KeptFields(fs) ==
    IF fs = <<>> THEN <<>>
    ELSE LET t == Trim(Head(fs)) IN
         (IF t # <<>> /\ t # Void THEN <<t>> ELSE <<>>) \o KeptFields(Tail(fs))

\* C8: parse_params splits exactly at the top-level commas (a comma inside an
\* open <, [ or ( never separates, every other comma does); the fields are
\* trimmed, in source order, and empty fields and "void" are dropped.
C8_SplitsAtTopLevelCommas ==
    pc = "done" => params = KeptFields(TopLevelFields(raw))

WordChars ==
    {"a", "b", "c", "d", "e", "f", "g", "h", "i", "j", "k", "l", "m", "n", "o",
     "p", "q", "r", "s", "t", "u", "v", "w", "x", "y", "z", "A", "B", "C",
     "D", "E", "F", "G", "H", "I", "J", "K", "L", "M", "N", "O", "P", "Q",
     "R", "S", "T", "U", "V", "W", "X", "Y", "Z", "0", "1", "2", "3", "4",
     "5", "6", "7", "8", "9", "_"}

\* the last whitespace-separated token of a trimmed field
LastToken(f) ==
    LET ws == {p \in 1..Len(f) : f[p] \in WhiteSpace}
    IN  IF ws = {} THEN f ELSE Drop(f, SetMax(ws))

\* a token without its leading and trailing characters that are neither
\* alphanumeric nor "_"
StripToWord(t) ==
    LET w == {p \in 1..Len(t) : t[p] \in WordChars}
    IN  IF w = {} THEN <<>> ELSE SubSeq(t, SetMin(w), SetMax(w))

\* C9: each emitted parameter is the last whitespace-separated token of its
\* trimmed field, stripped of leading and trailing characters that are
\* neither alphanumeric nor "_" (a field "a: i32" or "int argc" is never
\* emitted with its type annotation).
C9_EmitsNameOnly ==
    pc = "done" =>
        \A i \in 1..Len(params) : params[i] = StripToWord(LastToken(params[i]))

-----------------------------------------------------------------------------
(* estimate_complexity (extractors/mod.rs)                                 *)

\* KEYWORDS
Keywords ==
    <<
  <<"i", "f", " ">>,
  <<"e", "l", "s", "e", " ", "i", "f">>,
  <<"e", "l", "i", "f", " ">>,
  <<" ", "w", "h", "i", "l", "e", " ">>,
  <<" ", "f", "o", "r", " ">>,
  <<" ", "m", "a", "t", "c", "h", " ">>,
  <<"c", "a", "s", "e", " ">>,
  <<" ", "c", "a", "t", "c", "h", " ">>,
  <<" ", "e", "x", "c", "e", "p", "t", " ">>,
  <<"&", "&">>,
  <<"|", "|">>,
  <<"?", " ">>
    >>

\* `line.matches(kw).count()`: the matches found left to right, each search
\* resuming at the end of the previous match
RECURSIVE MatchCount(_, _, _)
MatchCount(line, kw, from) ==
    LET later == {i \in Occurrences(line, kw) : i >= from}
    IN  IF later = {} THEN 0
        ELSE 1 + MatchCount(line, kw, SetMin(later) + Len(kw))

\* a count that takes every position at which kw occurs
CountMatches_Overlapping(line, kw) == Cardinality(Occurrences(line, kw))

CountMatches(line, kw) == MatchCount(line, kw, 1)

\* the inner `for kw in KEYWORDS` loop: what one line adds to cc
RECURSIVE LineScore(_, _)
LineScore(line, k) ==
    IF k > Len(Keywords) THEN 0
    ELSE CountMatches(line, Keywords[k]) + LineScore(line, k + 1)

\* the outer `for line in block` loop: what the lines lo..hi add to cc
RECURSIVE BlockScore(_, _, _)
BlockScore(b, lo, hi) ==
    IF lo > hi THEN 0
    ELSE IF lo = hi THEN LineScore(b[lo], 1)
    ELSE LET mid == (lo + hi) \div 2
         IN  BlockScore(b, lo, mid) + BlockScore(b, mid + 1, hi)

\* `let mut cc = 1u32` and the loops
estimate_complexity(b) == 1 + BlockScore(b, 1, Len(b))

\* if x > 0 {
CxIf ==
    <<"i", "f", " ", "x", " ", ">", " ", "0", " ", "{">>

\*   for i in 0..10 {
CxFor ==
    <<" ", " ", "f", "o", "r", " ", "i", " ", "i", "n", " ", "0", ".", ".",
      "1", "0", " ", "{">>

\*     if true && false { }
CxAnd ==
    <<" ", " ", " ", " ", "i", "f", " ", "t", "r", "u", "e", " ", "&", "&",
      " ", "f", "a", "l", "s", "e", " ", "{", " ", "}">>

\*   }
CxClose ==
    <<" ", " ", "}">>

\* } else if y {
CxElseIf ==
    <<"}", " ", "e", "l", "s", "e", " ", "i", "f", " ", "y", " ", "{">>

\* }
CxEnd ==
    <<"}">>

\*  for for 
CxForFor ==
    <<" ", "f", "o", "r", " ", "f", "o", "r", " ">>

\*  while while 
CxWhileWhile ==
    <<" ", "w", "h", "i", "l", "e", " ", "w", "h", "i", "l", "e", " ">>

\* case case x
CxCaseCase ==
    <<"c", "a", "s", "e", " ", "c", "a", "s", "e", " ", "x">>

\* a ? b : c
CxTernary ==
    <<"a", " ", "?", " ", "b", " ", ":", " ", "c">>

\* test_complexity_estimation
ComplexityExample == <<CxIf, CxFor, CxAnd, CxClose, CxElseIf, CxEnd>>

\* longest line enumerated character by character
MaxCxLen == 4

\* most library lines in one block
MaxBlockLines == 2

CxAlphabet == {"&", "|", "?", " ", "x"}

CxLineLib ==
    {CxIf, CxAnd, CxElseIf, CxEnd, CxForFor, CxWhileWhile, CxCaseCase, CxTernary}

Blocks ==
    { <<l>> : l \in SeqUpTo(CxAlphabet, MaxCxLen) }
    \cup SeqUpTo(CxLineLib, MaxBlockLines)
    \cup {ComplexityExample}

InitComplexity ==
    /\ pc = "ready" /\ path = <<>> /\ NoMap /\ NoDoc /\ NoScan
    /\ block \in Blocks
    /\ content = <<>> /\ lines = <<>> /\ start_line = 0
    /\ ext = "" /\ functions = <<>> /\ base_indent = 0 /\ line_end = 0
    /\ raw = <<>> /\ params = <<>> /\ cc = 0

EstimateComplexity ==
    /\ pc = "ready"
    /\ cc' = estimate_complexity(block)
    /\ pc' = "done"
    /\ UNCHANGED <<map_vars, doc_vars, scan_vars, path, content, ext, functions, lines, start_line, base_indent,
                   line_end, raw, params, block>>

NextComplexity == EstimateComplexity

SpecComplexity == InitComplexity /\ [][NextComplexity]_vars

(* Reference counts                                                        *)

RECURSIVE SumOver(_, _, _)
\* the sum of Count(line, kw) over the lines of b from n on and all keywords
SumOver(Count(_, _), b, n) ==
    LET RECURSIVE perLine(_, _)
        perLine(line, k) ==
            IF k > Len(Keywords) THEN 0
            ELSE Count(line, Keywords[k]) + perLine(line, k + 1)
    IN  IF n > Len(b) THEN 0 ELSE perLine(b[n], 1) + SumOver(Count, b, n + 1)

\* every position at which kw occurs in line
AllPositions(line, kw) == Cardinality(Occurrences(line, kw))

\* the most occurrences of kw in line no two of which share a character
MostDisjoint(line, kw) ==
    LET occ == Occurrences(line, kw)
        ok(S) == \A i \in S : \A j \in S : i < j => j - i >= Len(kw)
    IN  SetMax({Cardinality(S) : S \in {T \in SUBSET occ : ok(T)}})

\* C10 as claimed: cc is 1 plus the number of positions at which each token
\* occurs in each line, overlapping occurrences each counted, of different
\* tokens and of the same token alike.
C10_CountsEveryPosition ==
    pc = "done" => cc = 1 + SumOver(AllPositions, block, 1)

\* C10 (amended): cc is 1 plus, over every line and every token, the number
\* of occurrences of that token that do not overlap one another (found left
\* to right); occurrences of different tokens each count even where they
\* overlap, so the test block scores 7.
C10_CountsDisjointMatches ==
    /\ pc = "done" => cc = 1 + SumOver(MostDisjoint, block, 1)
    /\ (pc = "done" /\ block = ComplexityExample) => cc = 7

\* the test block: "else if" and "if " overlap in "} else if y {"
C10_Witness ==
    /\ pc = "done" /\ block = ComplexityExample /\ cc = 7
    /\ \E i \in Occurrences(block[5], Keywords[1]) :
          \E j \in Occurrences(block[5], Keywords[2]) : j < i /\ i < j + 7

-----------------------------------------------------------------------------
(* The regex crate, for the patterns the extractors use                    *)
(*                                                                         *)
(* A pattern is a tree; a match is searched leftmost-first: the first      *)
(* start position at which the tree matches, and there the first match in  *)
(* the order of preference of the alternatives (first branch first) and of *)
(* the greedy repetitions (longest first).  Positions in a text are        *)
(* 1-based; a byte offset of the code is the position minus one.           *)

Lower ==
    {"a", "b", "c", "d", "e", "f", "g", "h", "i", "j", "k", "l", "m", "n", "o",
     "p", "q", "r", "s", "t", "u", "v", "w", "x", "y", "z"}

Upper ==
    {"A", "B", "C", "D", "E", "F", "G", "H", "I", "J", "K", "L", "M", "N", "O",
     "P", "Q", "R", "S", "T", "U", "V", "W", "X", "Y", "Z"}

Digit == {"0", "1", "2", "3", "4", "5", "6", "7", "8", "9"}

\* \x7f-\xff: the model's texts hold none of these characters
Latin1 == {}

Node(t, set, kids, name, word) ==
    [t |-> t, set |-> set, kids |-> kids, name |-> name, word |-> word]

\* [...]
Ch(S) == Node("in", S, <<>>, "", <<>>)

\* [^...]
NotCh(S) == Node("notin", S, <<>>, "", <<>>)

\* literal characters
Lit(w) == Node("lit", {}, <<>>, "", w)

\* a concatenation
Cat(ks) == Node("cat", {}, ks, "", <<>>)

\* a|b|...
Alt(ks) == Node("alt", {}, ks, "", <<>>)

\* x*
Star(k) == Node("star", {}, <<k>>, "", <<>>)

\* x+
Plus(k) == Node("plus", {}, <<k>>, "", <<>>)

\* x?
Opt(k) == Node("opt", {}, <<k>>, "", <<>>)

\* (?P<name>x), or (x) named by its number
Grp(name, k) == Node("grp", {}, <<k>>, name, <<>>)

\* ^ under (?m)
Bol == Node("bol", {}, <<>>, "", <<>>)

\* ^ without (?m)
Bot == Node("bot", {}, <<>>, "", <<>>)

GroupNames == {"name", "params", "indent", "async", "pub", "bases", "1"}

\* no group has taken part in the match
NoCaps == [g \in GroupNames |-> <<0, 0>>]

\* a sequence of sequences, concatenated
RECURSIVE Flatten(_)
Flatten(ss) == IF ss = <<>> THEN <<>> ELSE Head(ss) \o Flatten(Tail(ss))

\* a sequence without the later repetitions of its elements
RECURSIVE Dedup(_)
Dedup(s) ==
    IF s = <<>> THEN <<>>
    ELSE LET front == Dedup(Take(s, Len(s) - 1))
             last  == s[Len(s)]
         IN  IF \E k \in 1..Len(front) : front[k] = last
             THEN front ELSE Append(front, last)

\* the length of the longest run of characters that are in S (inside) or
\* not in S (not inside) from position i on
RunLength(text, i, S, inside) ==
    LET stop == {p \in i..Len(text) : (text[p] \in S) # inside}
    IN  IF stop = {} THEN Len(text) + 1 - i ELSE SetMin(stop) - i

\* A matcher state is the position reached and the groups set so far.
\* Steps(n, text, st) is every state in which a match of the tree n begun in
\* st can end, in the order of preference: the first branch of an
\* alternation first, the longer repetition first.
RECURSIVE Steps(_, _, _)
RECURSIVE CatSteps(_, _, _, _)
Steps(n, text, st) ==
    LET i == st.end
        each(k, sts) == Dedup(Flatten([j \in 1..Len(sts) |-> Steps(k, text, sts[j])]))
        at(p) == [st EXCEPT !.end = p]
    IN  CASE n.t = "in" ->
               IF i <= Len(text) /\ text[i] \in n.set THEN <<at(i + 1)>> ELSE <<>>
          [] n.t = "notin" ->
               IF i <= Len(text) /\ text[i] \notin n.set THEN <<at(i + 1)>> ELSE <<>>
          [] n.t = "lit" ->
               IF /\ i + Len(n.word) - 1 <= Len(text)
                  /\ SubSeq(text, i, i + Len(n.word) - 1) = n.word
               THEN <<at(i + Len(n.word))>> ELSE <<>>
          [] n.t = "cat" -> CatSteps(n.kids, 1, text, <<st>>)
          [] n.t = "alt" ->
               Dedup(Flatten([j \in 1..Len(n.kids) |-> Steps(n.kids[j], text, st)]))
          [] n.t = "opt" -> Dedup(Append(Steps(n.kids[1], text, st), st))
          [] n.t = "star" ->
               IF n.kids[1].t \in {"in", "notin"}
               THEN \* a run of single characters: the longest first
                    LET run == RunLength(text, i, n.kids[1].set, n.kids[1].t = "in")
                    IN  [k \in 1..(run + 1) |-> at(i + run + 1 - k)]
               ELSE LET once == SelectSeq(Steps(n.kids[1], text, st),
                                          LAMBDA r : r.end > i)
                    IN  Dedup(Append(each(n, once), st))
          [] n.t = "plus" -> each(Star(n.kids[1]), Steps(n.kids[1], text, st))
          [] n.t = "grp" ->
               LET inner == Steps(n.kids[1], text, st)
               IN  [k \in 1..Len(inner) |->
                       [inner[k] EXCEPT !.caps[n.name] = <<i, inner[k].end>>]]
          [] n.t = "bol" -> IF i = 1 \/ text[i - 1] = NL THEN <<st>> ELSE <<>>
          [] n.t = "bot" -> IF i = 1 THEN <<st>> ELSE <<>>

\* the trees ks[k..] one after the other, from each of the states sts
CatSteps(ks, k, text, sts) ==
    IF k > Len(ks) \/ sts = <<>> THEN sts
    ELSE CatSteps(ks, k + 1, text,
             Dedup(Flatten([j \in 1..Len(sts) |-> Steps(ks[k], text, sts[j])])))

\* the preferred match of re that starts at position s, if any
MatchAt(re, text, s) == Steps(re, text, [end |-> s, caps |-> NoCaps])

\* the positions at which a match of re can start
MatchStarts(re, text) ==
    {s \in 1..(Len(text) + 1) : MatchAt(re, text, s) # <<>>}

\* Regex::captures_iter: the successive non-overlapping matches from
\* position p on, hits being the positions at which a match can start; a
\* match is [start, end) with its groups
RECURSIVE CapturesFrom(_, _, _, _)
CapturesFrom(re, text, hits, p) ==
    LET later == {s \in hits : s >= p}
    IN  IF later = {} THEN <<>>
        ELSE LET s == SetMin(later)
                 r == MatchAt(re, text, s)[1]
             IN  <<[start |-> s, end |-> r.end, caps |-> r.caps]>>
                 \o CapturesFrom(re, text, hits,
                                 IF r.end > s THEN r.end ELSE s + 1)

captures_iter(re, text) == CapturesFrom(re, text, MatchStarts(re, text), 1)

\* Regex::is_match
is_match(re, text) == MatchStarts(re, text) # {}

\* cap.name(g).is_some()
IsSome(m, g) == m.caps[g][1] > 0

\* cap.name(g).map_or(default, |x| x.as_str())
GroupOr(text, m, g, default) ==
    IF IsSome(m, g) THEN SubSeq(text, m.caps[g][1], m.caps[g][2] - 1)
    ELSE default

\* &content[m.start()..m.end()]
Matched(text, m) == SubSeq(text, m.start, m.end - 1)

(* The patterns of the extractors                                         *)

\* cpp.rs:9
RE_C_FN ==
    Cat(<<
        Bol,
        Star(Ch({" ", "\t"})),
        Plus(Cat(<<Ch(WordChars), Plus(Ch(WordChars \cup {"*", "&", " ",
            "\t"})), Plus(Ch(WhiteSpace))>>)),
        Grp("name", Cat(<<Ch(Lower \cup Upper \cup {"_"}),
            Star(Ch(Lower \cup Upper \cup Digit \cup {"_"}))>>)),
        Star(Ch(WhiteSpace)),
        Lit(<<"(">>),
        Grp("params", Star(NotCh({")"}))),
        Lit(<<")">>),
        Star(Ch(WhiteSpace)),
        Opt(Cat(<<Lit(<<"c", "o", "n", "s", "t">>), Star(Ch(WhiteSpace))>>)),
        Opt(Cat(<<Lit(<<"n", "o", "e", "x", "c", "e", "p", "t">>),
            Star(Ch(WhiteSpace))>>)),
        Opt(Cat(<<Lit(<<"o", "v", "e", "r", "r", "i", "d", "e">>),
            Star(Ch(WhiteSpace))>>)),
        Lit(<<"{">>)
    >>)

\* go.rs:9
RE_GO_FN ==
    Cat(<<
        Bol,
        Lit(<<"f", "u", "n", "c">>),
        Plus(Ch(WhiteSpace)),
        Opt(Cat(<<Lit(<<"(">>), Plus(NotCh({")"})), Lit(<<")">>),
            Plus(Ch(WhiteSpace))>>)),
        Grp("name", Cat(<<Ch(Lower \cup Upper \cup {"_"}),
            Star(Ch(Lower \cup Upper \cup Digit \cup {"_"}))>>)),
        Star(Ch(WhiteSpace)),
        Lit(<<"(">>),
        Grp("params", Star(NotCh({")"}))),
        Lit(<<")">>)
    >>)

\* go.rs:16
RE_GO_RECV ==
    Cat(<<
        Bot,
        Lit(<<"f", "u", "n", "c">>),
        Plus(Ch(WhiteSpace)),
        Lit(<<"(">>),
        Plus(NotCh({")"})),
        Lit(<<")">>)
    >>)

\* java.rs:9
RE_JAVA_FN ==
    Cat(<<
        Bol,
        Star(Ch({" ", "\t"})),
        Star(Cat(<<Alt(<<Lit(<<"p", "u", "b", "l", "i", "c">>), Lit(<<"p",
            "r", "i", "v", "a", "t", "e">>), Lit(<<"p", "r", "o", "t", "e",
            "c", "t", "e", "d">>), Lit(<<"i", "n", "t", "e", "r", "n", "a",
            "l">>), Lit(<<"o", "p", "e", "n">>), Lit(<<"o", "v", "e", "r",
            "r", "i", "d", "e">>), Lit(<<"a", "b", "s", "t", "r", "a", "c",
            "t">>), Lit(<<"s", "t", "a", "t", "i", "c">>), Lit(<<"f", "i",
            "n", "a", "l">>), Lit(<<"s", "e", "a", "l", "e", "d">>),
            Lit(<<"a", "s", "y", "n", "c">>), Lit(<<"v", "i", "r", "t", "u",
            "a", "l">>), Lit(<<"e", "x", "t", "e", "r", "n">>), Lit(<<"s",
            "u", "s", "p", "e", "n", "d">>)>>), Plus(Ch(WhiteSpace))>>)),
        Star(Cat(<<Plus(Ch(WordChars)), Opt(Cat(<<Lit(<<"<">>),
            Star(NotCh({">"})), Lit(<<">">>)>>)), Plus(Ch({"*", "&", " ",
            "\t"}))>>)),
        Grp("name", Cat(<<Ch(Lower \cup Upper \cup {"_"}),
            Star(Ch(Lower \cup Upper \cup Digit \cup {"_"}))>>)),
        Star(Ch(WhiteSpace)),
        Lit(<<"(">>),
        Grp("params", Star(NotCh({")"}))),
        Lit(<<")">>),
        Star(Ch(WhiteSpace)),
        Opt(Cat(<<Lit(<<"t", "h", "r", "o", "w", "s">>),
            Plus(Ch(WhiteSpace)), Plus(Ch(WordChars)),
            Star(Ch(WhiteSpace))>>)),
        Alt(<<Lit(<<"{">>), Lit(<<"=", ">">>)>>)
    >>)

\* javascript.rs:9, pattern 1
RE_JS_FN_1 ==
    Cat(<<
        Bol,
        Star(Ch({" ", "\t"})),
        Opt(Cat(<<Lit(<<"e", "x", "p", "o", "r", "t">>),
            Plus(Ch(WhiteSpace)), Opt(Cat(<<Lit(<<"d", "e", "f", "a", "u",
            "l", "t">>), Plus(Ch(WhiteSpace))>>))>>)),
        Opt(Cat(<<Lit(<<"a", "s", "y", "n", "c">>), Plus(Ch(WhiteSpace))>>)),
        Lit(<<"f", "u", "n", "c", "t", "i", "o", "n">>),
        Plus(Ch(WhiteSpace)),
        Grp("name", Cat(<<Ch(Lower \cup Upper \cup {"_", "$"}),
            Star(Ch(Lower \cup Upper \cup Digit \cup {"_", "$"}))>>)),
        Star(Ch(WhiteSpace)),
        Lit(<<"(">>),
        Grp("params", Star(NotCh({")"}))),
        Lit(<<")">>)
    >>)

\* javascript.rs:9, pattern 2
RE_JS_FN_2 ==
    Cat(<<
        Bol,
        Star(Ch({" ", "\t"})),
        Opt(Cat(<<Lit(<<"e", "x", "p", "o", "r", "t">>),
            Plus(Ch(WhiteSpace))>>)),
        Alt(<<Lit(<<"c", "o", "n", "s", "t">>), Lit(<<"l", "e", "t">>),
            Lit(<<"v", "a", "r">>)>>),
        Plus(Ch(WhiteSpace)),
        Grp("name", Cat(<<Ch(Lower \cup Upper \cup {"_", "$"}),
            Star(Ch(Lower \cup Upper \cup Digit \cup {"_", "$"}))>>)),
        Star(Ch(WhiteSpace)),
        Lit(<<"=">>),
        Star(Ch(WhiteSpace)),
        Opt(Cat(<<Lit(<<"a", "s", "y", "n", "c">>), Plus(Ch(WhiteSpace))>>)),
        Opt(Cat(<<Lit(<<"f", "u", "n", "c", "t", "i", "o", "n">>),
            Star(Ch(WhiteSpace))>>)),
        Lit(<<"(">>),
        Grp("params", Star(NotCh({")"}))),
        Lit(<<")">>),
        Star(Ch(WhiteSpace)),
        Opt(Lit(<<"=", ">">>))
    >>)

\* a pattern that matches nowhere
RE_JS_FN_3_Never == Ch({})

\* javascript.rs:9, pattern 3
RE_JS_FN_3 ==
    Cat(<<
        Bol,
        Plus(Ch({" ", "\t"})),
        Opt(Cat(<<Lit(<<"a", "s", "y", "n", "c">>), Plus(Ch(WhiteSpace))>>)),
        Opt(Cat(<<Lit(<<"s", "t", "a", "t", "i", "c">>),
            Plus(Ch(WhiteSpace))>>)),
        Opt(Alt(<<Cat(<<Lit(<<"g", "e", "t">>), Plus(Ch(WhiteSpace))>>),
            Cat(<<Lit(<<"s", "e", "t">>), Plus(Ch(WhiteSpace))>>)>>)),
        Grp("name", Cat(<<Ch(Lower \cup Upper \cup {"_", "$"}),
            Star(Ch(Lower \cup Upper \cup Digit \cup {"_", "$"}))>>)),
        Star(Ch(WhiteSpace)),
        Lit(<<"(">>),
        Grp("params", Star(NotCh({")"}))),
        Lit(<<")">>),
        Star(Ch(WhiteSpace)),
        Lit(<<"{">>)
    >>)

RE_JS_FN == <<RE_JS_FN_1, RE_JS_FN_2, RE_JS_FN_3>>

\* javascript.rs:17
RE_JS_CLASS ==
    Cat(<<
        Bol,
        Star(Ch({" ", "\t"})),
        Opt(Cat(<<Lit(<<"e", "x", "p", "o", "r", "t">>),
            Plus(Ch(WhiteSpace)), Opt(Cat(<<Lit(<<"d", "e", "f", "a", "u",
            "l", "t">>), Plus(Ch(WhiteSpace))>>))>>)),
        Lit(<<"c", "l", "a", "s", "s">>),
        Plus(Ch(WhiteSpace)),
        Grp("name", Cat(<<Ch(Lower \cup Upper \cup {"_", "$"}),
            Star(Ch(Lower \cup Upper \cup Digit \cup {"_", "$"}))>>))
    >>)

\* nim.rs:9
RE_NIM_FN ==
    Cat(<<
        Bol,
        Grp("indent", Star(Ch({" ", "\t"}))),
        Alt(<<Lit(<<"p", "r", "o", "c">>), Lit(<<"f", "u", "n", "c">>),
            Lit(<<"m", "e", "t", "h", "o", "d">>), Lit(<<"i", "t", "e", "r",
            "a", "t", "o", "r">>), Lit(<<"m", "a", "c", "r", "o">>),
            Lit(<<"t", "e", "m", "p", "l", "a", "t", "e">>)>>),
        Plus(Ch(WhiteSpace)),
        Grp("name", Cat(<<Ch(Lower \cup Upper \cup {"_"}),
            Star(Ch(Lower \cup Upper \cup Digit \cup {"_"}))>>)),
        Star(Ch(WhiteSpace)),
        Opt(Lit(<<"*">>)),
        Star(Ch(WhiteSpace)),
        Opt(Cat(<<Lit(<<"[">>), Star(NotCh({"]"})), Lit(<<"]">>)>>)),
        Star(Ch(WhiteSpace)),
        Lit(<<"(">>),
        Grp("params", Star(NotCh({")"}))),
        Lit(<<")">>)
    >>)

\* php.rs:9
RE_PHP_FN ==
    Cat(<<
        Bol,
        Star(Ch({" ", "\t"})),
        Star(Cat(<<Alt(<<Lit(<<"p", "u", "b", "l", "i", "c">>), Lit(<<"p",
            "r", "i", "v", "a", "t", "e">>), Lit(<<"p", "r", "o", "t", "e",
            "c", "t", "e", "d">>), Lit(<<"s", "t", "a", "t", "i", "c">>),
            Lit(<<"f", "i", "n", "a", "l">>), Lit(<<"a", "b", "s", "t", "r",
            "a", "c", "t">>)>>), Plus(Ch(WhiteSpace))>>)),
        Lit(<<"f", "u", "n", "c", "t", "i", "o", "n">>),
        Plus(Ch(WhiteSpace)),
        Grp("name", Cat(<<Ch(Lower \cup Upper \cup Latin1 \cup {"_"}),
            Star(Ch(Lower \cup Upper \cup Digit \cup Latin1 \cup {"_"}))>>)),
        Star(Ch(WhiteSpace)),
        Lit(<<"(">>),
        Grp("params", Star(NotCh({")"}))),
        Lit(<<")">>)
    >>)

\* php.rs:14
RE_PHP_CLASS ==
    Cat(<<
        Bol,
        Star(Ch({" ", "\t"})),
        Opt(Cat(<<Alt(<<Lit(<<"a", "b", "s", "t", "r", "a", "c", "t">>),
            Lit(<<"f", "i", "n", "a", "l">>)>>), Plus(Ch(WhiteSpace))>>)),
        Alt(<<Lit(<<"c", "l", "a", "s", "s">>), Lit(<<"i", "n", "t", "e",
            "r", "f", "a", "c", "e">>), Lit(<<"t", "r", "a", "i", "t">>)>>),
        Plus(Ch(WhiteSpace)),
        Grp("name", Cat(<<Ch(Lower \cup Upper \cup Latin1 \cup {"_"}),
            Star(Ch(Lower \cup Upper \cup Digit \cup Latin1 \cup {"_"}))>>))
    >>)

\* python.rs:9
RE_PY_FN ==
    Cat(<<
        Bol,
        Grp("indent", Star(Ch({" ", "\t"}))),
        Opt(Grp("async", Cat(<<Lit(<<"a", "s", "y", "n", "c">>),
            Plus(Ch(WhiteSpace))>>))),
        Lit(<<"d", "e", "f">>),
        Plus(Ch(WhiteSpace)),
        Grp("name", Cat(<<Ch(Lower \cup Upper \cup {"_"}),
            Star(Ch(Lower \cup Upper \cup Digit \cup {"_"}))>>)),
        Star(Ch(WhiteSpace)),
        Lit(<<"(">>),
        Grp("params", Star(NotCh({")"}))),
        Lit(<<")">>),
        Star(Ch(WhiteSpace)),
        Opt(Cat(<<Lit(<<"-", ">">>), Plus(NotCh({":"}))>>)),
        Lit(<<":">>)
    >>)

\* python.rs:13
RE_PY_CLASS ==
    Cat(<<
        Bol,
        Grp("indent", Star(Ch({" ", "\t"}))),
        Lit(<<"c", "l", "a", "s", "s">>),
        Plus(Ch(WhiteSpace)),
        Grp("name", Cat(<<Ch(Lower \cup Upper \cup {"_"}),
            Star(Ch(Lower \cup Upper \cup Digit \cup {"_"}))>>)),
        Opt(Cat(<<Lit(<<"(">>), Grp("bases", Star(NotCh({")"}))),
            Lit(<<")">>)>>)),
        Star(Ch(WhiteSpace)),
        Lit(<<":">>)
    >>)

\* python.rs:17
RE_PY_DECORATOR ==
    Cat(<<
        Bol,
        Star(Ch({" ", "\t"})),
        Lit(<<"@">>),
        Grp("1", Cat(<<Ch(Lower \cup Upper \cup {"_"}),
            Star(Ch(Lower \cup Upper \cup Digit \cup {"_", "."}))>>))
    >>)

\* ruby.rs:9
RE_RUBY_FN ==
    Cat(<<
        Bol,
        Star(Ch({" ", "\t"})),
        Lit(<<"d", "e", "f">>),
        Plus(Ch(WhiteSpace)),
        Opt(Lit(<<"s", "e", "l", "f", ".">>)),
        Grp("name", Cat(<<Ch(Lower \cup Upper \cup {"_"}),
            Star(Ch(Lower \cup Upper \cup Digit \cup {"_", "!", "?",
            "="}))>>)),
        Opt(Cat(<<Star(Ch(WhiteSpace)), Lit(<<"(">>), Grp("params",
            Star(NotCh({")"}))), Lit(<<")">>)>>))
    >>)

\* ruby.rs:14
RE_RUBY_CLASS ==
    Cat(<<
        Bol,
        Star(Ch({" ", "\t"})),
        Alt(<<Lit(<<"c", "l", "a", "s", "s">>), Lit(<<"m", "o", "d", "u",
            "l", "e">>)>>),
        Plus(Ch(WhiteSpace)),
        Grp("name", Cat(<<Ch(Upper),
            Star(Ch(Lower \cup Upper \cup Digit \cup {"_"}))>>)),
        Opt(Cat(<<Star(Ch(WhiteSpace)), Lit(<<"<">>), Star(Ch(WhiteSpace)),
            Ch(Upper), Star(Ch(Lower \cup Upper \cup Digit \cup {"_",
            ":"}))>>))
    >>)

\* rust.rs:9
RE_RUST_FN ==
    Cat(<<
        Bol,
        Star(Ch({" ", "\t"})),
        Opt(Grp("pub", Cat(<<Lit(<<"p", "u", "b">>), Opt(Cat(<<Lit(<<"(">>),
            Plus(NotCh({")"})), Lit(<<")">>)>>)), Plus(Ch(WhiteSpace))>>))),
        Opt(Grp("async", Cat(<<Lit(<<"a", "s", "y", "n", "c">>),
            Plus(Ch(WhiteSpace))>>))),
        Lit(<<"f", "n">>),
        Plus(Ch(WhiteSpace)),
        Grp("name", Cat(<<Ch(Lower \cup Upper \cup {"_"}),
            Star(Ch(Lower \cup Upper \cup Digit \cup {"_"}))>>)),
        Opt(Cat(<<Lit(<<"<">>), Star(NotCh({">"})), Lit(<<">">>)>>)),
        Star(Ch(WhiteSpace)),
        Lit(<<"(">>),
        Grp("params", Star(NotCh({")"}))),
        Lit(<<")">>)
    >>)

\* rust.rs:14
RE_RUST_STRUCT ==
    Cat(<<
        Bol,
        Star(Ch({" ", "\t"})),
        Opt(Cat(<<Lit(<<"p", "u", "b">>), Opt(Cat(<<Lit(<<"(">>),
            Plus(NotCh({")"})), Lit(<<")">>)>>)), Plus(Ch(WhiteSpace))>>)),
        Lit(<<"s", "t", "r", "u", "c", "t">>),
        Plus(Ch(WhiteSpace)),
        Grp("name", Cat(<<Ch(Lower \cup Upper \cup {"_"}),
            Star(Ch(Lower \cup Upper \cup Digit \cup {"_"}))>>))
    >>)

\* swift.rs:9
RE_SWIFT_FN ==
    Cat(<<
        Bol,
        Star(Ch({" ", "\t"})),
        Star(Cat(<<Alt(<<Lit(<<"p", "u", "b", "l", "i", "c">>), Lit(<<"p",
            "r", "i", "v", "a", "t", "e">>), Lit(<<"i", "n", "t", "e", "r",
            "n", "a", "l">>), Lit(<<"f", "i", "l", "e", "p", "r", "i", "v",
            "a", "t", "e">>), Lit(<<"o", "p", "e", "n">>), Lit(<<"m", "u",
            "t", "a", "t", "i", "n", "g">>), Lit(<<"n", "o", "n", "m", "u",
            "t", "a", "t", "i", "n", "g">>), Lit(<<"c", "l", "a", "s",
            "s">>), Lit(<<"s", "t", "a", "t", "i", "c">>), Lit(<<"o", "v",
            "e", "r", "r", "i", "d", "e">>), Lit(<<"f", "i", "n", "a",
            "l">>)>>), Plus(Ch(WhiteSpace))>>)),
        Lit(<<"f", "u", "n", "c">>),
        Plus(Ch(WhiteSpace)),
        Grp("name", Cat(<<Ch(Lower \cup Upper \cup {"_"}),
            Star(Ch(Lower \cup Upper \cup Digit \cup {"_"}))>>)),
        Star(Ch(WhiteSpace)),
        Opt(Cat(<<Lit(<<"<">>), Star(NotCh({">"})), Lit(<<">">>)>>)),
        Star(Ch(WhiteSpace)),
        Lit(<<"(">>),
        Grp("params", Star(NotCh({")"}))),
        Lit(<<")">>),
        Star(Ch(WhiteSpace)),
        Opt(Cat(<<Lit(<<"a", "s", "y", "n", "c">>), Plus(Ch(WhiteSpace))>>)),
        Opt(Cat(<<Lit(<<"t", "h", "r", "o", "w", "s">>),
            Plus(Ch(WhiteSpace))>>))
    >>)

\* swift.rs:14
RE_SWIFT_CLASS ==
    Cat(<<
        Bol,
        Star(Ch({" ", "\t"})),
        Star(Cat(<<Alt(<<Lit(<<"p", "u", "b", "l", "i", "c">>), Lit(<<"p",
            "r", "i", "v", "a", "t", "e">>), Lit(<<"i", "n", "t", "e", "r",
            "n", "a", "l">>), Lit(<<"f", "i", "l", "e", "p", "r", "i", "v",
            "a", "t", "e">>), Lit(<<"o", "p", "e", "n">>), Lit(<<"f", "i",
            "n", "a", "l">>)>>), Plus(Ch(WhiteSpace))>>)),
        Alt(<<Lit(<<"c", "l", "a", "s", "s">>), Lit(<<"s", "t", "r", "u",
            "c", "t">>), Lit(<<"e", "n", "u", "m">>), Lit(<<"p", "r", "o",
            "t", "o", "c", "o", "l">>)>>),
        Plus(Ch(WhiteSpace)),
        Grp("name", Cat(<<Ch(Lower \cup Upper \cup {"_"}),
            Star(Ch(Lower \cup Upper \cup Digit \cup {"_"}))>>))
    >>)

-----------------------------------------------------------------------------
(* LineMap and the per-language extractors                                 *)

\* a map that keeps the offset of every "\n" itself, not of the byte after it
LineMap_NewlineOffsets(text) ==
    LET starts == {0} \cup {p - 1 : p \in {q \in 1..Len(text) : text[q] = NL}}
    IN  [k \in 1..Cardinality(starts) |->
            CHOOSE o \in starts : Cardinality({q \in starts : q < o}) = k - 1]

\* LineMap::new: 0 and the offset after every "\n", ascending
LineMap(text) ==
    LET starts == {0} \cup {p \in 1..Len(text) : text[p] = NL}
    IN  [k \in 1..Cardinality(starts) |->
            CHOOSE o \in starts : Cardinality({q \in starts : q < o}) = k - 1]

\* a line lookup that returns the 0-based index of the offset's line
offset_to_line_ZeroBased(offsets, offset) ==
    Cardinality({k \in 1..Len(offsets) : offsets[k] <= offset}) - 1

\* LineMap::offset_to_line: binary_search gives Ok(idx) at the offset's own
\* index and Err(idx) at its insertion point
offset_to_line(offsets, offset) ==
    LET here == {k \in 1..Len(offsets) : offsets[k] = offset}
    IN  IF here # {} THEN CHOOSE k \in here : TRUE
        ELSE Cardinality({k \in 1..Len(offsets) : offsets[k] < offset})

\* Option::None and Option::Some
None == <<>>

Some(x) == <<x>>

FunctionInfo(name, ls, le, ps, is_async, is_method, is_class, doc, decs, cx) ==
    [name |-> name, line_start |-> ls, line_end |-> le, parameters |-> ps,
     is_async |-> is_async, is_method |-> is_method, is_class |-> is_class,
     docstring |-> doc, decorators |-> decs, complexity |-> cx]

\* &lines[line_start.saturating_sub(1)..line_end.min(lines.len())]
BlockOf(ls, first, last) ==
    SubSeq(ls, Max(first - 1, 0) + 1, Min(last, Len(ls)))

\* the elements of s at the indices I, in order
Pick(s, I) ==
    [k \in 1..Cardinality(I) |->
        s[CHOOSE i \in I : Cardinality({j \in I : j < i}) = k - 1]]

\* the matches kept, taken out of the hash set `seen` in its iteration order,
\* which differs from one run to the next
Unseen_HashOrder(ms) ==
    LET kept == Pick(ms, {k \in 1..Len(ms) :
                             \A j \in 1..(k - 1) : ms[j].start # ms[k].start})
    IN  IF pc = "ready" THEN kept
        ELSE [k \in 1..Len(kept) |-> kept[Len(kept) + 1 - k]]

\* `if !seen.insert(m.start()) { continue; }`
Unseen(ms) ==
    Pick(ms, {k \in 1..Len(ms) :
                 \A j \in 1..(k - 1) : ms[j].start # ms[k].start})

\* cap.name("name").map_or("?", ..)
NameOf(text, m) == GroupOr(text, m, "name", <<"?">>)

\* parse_params(cap.name("params").map_or("", ..))
ParamsOf(text, m) == parse_params(GroupOr(text, m, "params", <<>>))

\* `if SKIP.contains(&name.as_str()) { continue; }`
NotSkipped(text, ms, skip) ==
    SelectSeq(ms, LAMBDA m : NameOf(text, m) \notin skip)

\* no sort: the records in the order in which they were pushed
SortByLineStart_Unsorted(fs) == fs

\* functions.sort_by_key(|f| f.line_start): a stable sort
RECURSIVE SortByLineStart(_)
SortByLineStart(fs) ==
    IF fs = <<>> THEN <<>>
    ELSE LET front == SortByLineStart(Take(fs, Len(fs) - 1))
             last  == fs[Len(fs)]
             k == Cardinality({j \in 1..Len(front) :
                                  front[j].line_start <= last.line_start})
         IN  Take(front, k) \o <<last>> \o Drop(front, k)

\* a function or method of a brace language: the record of one match
BraceFunction(text, ls, offsets, m, is_async, is_method, decorators) ==
    LET first == offset_to_line(offsets, m.start - 1)
        last  == find_closing_brace(ls, first)
    IN  FunctionInfo(NameOf(text, m), first, last, ParamsOf(text, m),
                     is_async, is_method, FALSE, None, decorators,
                     estimate_complexity(BlockOf(ls, first, last)))

\* a class-like record that is also marked as a method
BraceClass_AsMethod(text, ls, offsets, m) ==
    LET first == offset_to_line(offsets, m.start - 1)
    IN  FunctionInfo(NameOf(text, m), first, find_closing_brace(ls, first),
                     <<>>, FALSE, TRUE, TRUE, None, <<>>, 1)

\* a class-like record of a brace language
BraceClass(text, ls, offsets, m) ==
    LET first == offset_to_line(offsets, m.start - 1)
    IN  FunctionInfo(NameOf(text, m), first, find_closing_brace(ls, first),
                     <<>>, FALSE, FALSE, TRUE, None, <<>>, 1)

(* rust.rs *)

\* the look-back for #[test] and #[tokio::test]
RustTestAttribute(text, m) ==
    LET pre_trim == TrimEnd(Take(text, m.start - 1))
    IN  \/ /\ EndsWith(pre_trim, <<"]">>)
           /\ Contains(pre_trim, <<"#", "[", "t", "e", "s", "t", "]">>)
        \/ Contains(pre_trim, <<"#", "[", "t", "o", "k", "i", "o", ":", ":",
            "t", "e", "s", "t", "]">>)

\* an "impl " before the match with no blank line in between
RustInImpl(text, m) ==
    LET impls == Occurrences(Take(text, m.start - 1), <<"i", "m", "p", "l",
        " ">>)
    IN  /\ impls # {}
        /\ ~Contains(SubSeq(text, SetMax(impls), m.start - 1), <<NL, NL>>)

RustExtractor(text) ==
    LET ls      == Lines(text)
        offsets == LineMap(text)
        fns     == SelectSeq(Unseen(captures_iter(RE_RUST_FN, text)),
                             LAMBDA m : ~RustTestAttribute(text, m))
        structs == captures_iter(RE_RUST_STRUCT, text)
    IN  SortByLineStart(
            [k \in 1..Len(fns) |->
                BraceFunction(text, ls, offsets, fns[k],
                    IsSome(fns[k], "async"), RustInImpl(text, fns[k]),
                    IF IsSome(fns[k], "pub") THEN <<<<"p", "u",
                        "b">>>> ELSE <<>>)]
            \o [k \in 1..Len(structs) |->
                BraceClass(text, ls, offsets, structs[k])])

(* python.rs *)

collect_python_decorators(text, fn_start) ==
    LET before     == Take(text, fn_start)
        blanks     == Occurrences(before, <<NL, NL>>)
        last_blank == IF blanks = {} THEN 0 ELSE SetMax(blanks) - 1
        segment    == Drop(before, last_blank)
        ds         == captures_iter(RE_PY_DECORATOR, segment)
    IN  [k \in 1..Len(ds) |-> GroupOr(segment, ds[k], "1", <<>>)]

TripleDouble == <<DQ, DQ, DQ>>

TripleSingle == <<SQ, SQ, SQ>>

extract_py_docstring(blk) ==
    LET opens(k) == LET t == Trim(blk[k])
                    IN  StartsWith(t, TripleDouble) \/ StartsWith(t,
                        TripleSingle)
        \* block.iter().skip(1).take(5)
        found == {k \in 2..Min(6, Len(blk)) : opens(k)}
    IN  IF found = {} THEN None
        ELSE LET t     == Trim(blk[SetMin(found)])
                 quote == IF StartsWith(t, TripleDouble)
                          THEN TripleDouble ELSE TripleSingle
                 inner == Drop(t, 3)
                 ends  == Occurrences(inner, quote)
             IN  IF ends # {} THEN Some(Trim(Take(inner, SetMin(ends) - 1)))
                 ELSE Some(Trim(inner))

PythonFunction(text, ls, offsets, m) ==
    LET first  == offset_to_line(offsets, m.start - 1)
        ps     == ParamsOf(text, m)
        indent == Len(GroupOr(text, m, "indent", <<>>))
        last   == find_python_end(ls, first, indent)
        blk    == BlockOf(ls, first, last)
    IN  FunctionInfo(NameOf(text, m), first, last, ps, IsSome(m, "async"),
                     ps # <<>> /\ ps[1] \in {<<"s", "e", "l", "f">>, <<"c",
                         "l", "s">>},
                     FALSE, extract_py_docstring(blk),
                     collect_python_decorators(text, m.start - 1),
                     estimate_complexity(blk))

PythonClass(text, ls, offsets, m) ==
    LET first  == offset_to_line(offsets, m.start - 1)
        indent == Len(GroupOr(text, m, "indent", <<>>))
    IN  FunctionInfo(NameOf(text, m), first,
                     find_python_end(ls, first, indent),
                     parse_params(GroupOr(text, m, "bases", <<>>)),
                     FALSE, FALSE, TRUE, None, <<>>, 1)

PythonExtractor(text) ==
    LET ls      == Lines(text)
        offsets == LineMap(text)
        fns     == captures_iter(RE_PY_FN, text)
        classes == captures_iter(RE_PY_CLASS, text)
    IN  SortByLineStart(
            [k \in 1..Len(fns) |-> PythonFunction(text, ls, offsets, fns[k])]
            \o [k \in 1..Len(classes) |->
                PythonClass(text, ls, offsets, classes[k])])

(* javascript.rs *)

JsSkip ==
    {<<"i", "f">>, <<"f", "o", "r">>, <<"w", "h", "i", "l", "e">>, <<"s",
        "w", "i", "t", "c", "h">>, <<"c", "a", "t", "c", "h">>, <<"c", "o",
            "n", "s", "t", "r", "u", "c", "t", "o", "r">>, <<"r", "e", "t",
                "u", "r", "n">>}

JavascriptExtractor(text) ==
    LET ls      == Lines(text)
        offsets == LineMap(text)
        all     == captures_iter(RE_JS_FN[1], text)
                   \o captures_iter(RE_JS_FN[2], text)
                   \o captures_iter(RE_JS_FN[3], text)
        fns     == NotSkipped(text, Unseen(all), JsSkip)
        classes == captures_iter(RE_JS_CLASS, text)
    IN  SortByLineStart(
            [k \in 1..Len(fns) |->
                BraceFunction(text, ls, offsets, fns[k],
                    Contains(Matched(text, fns[k]), <<"a", "s", "y", "n",
                        "c", " ">>), FALSE, <<>>)]
            \o [k \in 1..Len(classes) |->
                BraceClass(text, ls, offsets, classes[k])])

(* go.rs *)

GoExtractor(text) ==
    LET ls      == Lines(text)
        offsets == LineMap(text)
        fns     == captures_iter(RE_GO_FN, text)
    IN  [k \in 1..Len(fns) |->
            BraceFunction(text, ls, offsets, fns[k], FALSE,
                is_match(RE_GO_RECV, Matched(text, fns[k])), <<>>)]

(* cpp.rs *)

CppSkip ==
    {<<"i", "f">>, <<"f", "o", "r">>, <<"w", "h", "i", "l", "e">>, <<"s",
        "w", "i", "t", "c", "h">>, <<"d", "o">>, <<"r", "e", "t", "u", "r",
            "n">>}

CppExtractor(text) ==
    LET ls      == Lines(text)
        offsets == LineMap(text)
        fns     == NotSkipped(text, Unseen(captures_iter(RE_C_FN, text)),
                              CppSkip)
    IN  [k \in 1..Len(fns) |->
            BraceFunction(text, ls, offsets, fns[k], FALSE, FALSE, <<>>)]

(* java.rs *)

JavaSkip ==
    {<<"i", "f">>, <<"f", "o", "r">>, <<"w", "h", "i", "l", "e">>, <<"s",
        "w", "i", "t", "c", "h">>, <<"c", "a", "t", "c", "h">>, <<"t", "r",
            "y">>, <<"e", "l", "s", "e">>, <<"d", "o">>}

JavaExtractor(text) ==
    LET ls      == Lines(text)
        offsets == LineMap(text)
        fns     == NotSkipped(text, Unseen(captures_iter(RE_JAVA_FN, text)),
                              JavaSkip)
    IN  [k \in 1..Len(fns) |->
            BraceFunction(text, ls, offsets, fns[k], FALSE, TRUE, <<>>)]

(* php.rs *)

PhpVisibility ==
    {<<"p", "u", "b", "l", "i", "c">>, <<"p", "r", "i", "v", "a", "t", "e">>,
        <<"p", "r", "o", "t", "e", "c", "t", "e", "d">>}

PhpExtractor(text) ==
    LET ls      == Lines(text)
        offsets == LineMap(text)
        fns     == Unseen(captures_iter(RE_PHP_FN, text))
        classes == captures_iter(RE_PHP_CLASS, text)
    IN  SortByLineStart(
            [k \in 1..Len(fns) |->
                BraceFunction(text, ls, offsets, fns[k], FALSE,
                    \E w \in PhpVisibility :
                        Contains(Matched(text, fns[k]), w),
                    <<>>)]
            \o [k \in 1..Len(classes) |->
                BraceClass(text, ls, offsets, classes[k])])

(* swift.rs *)

SwiftMethodMarks ==
    {<<"m", "u", "t", "a", "t", "i", "n", "g", " ">>, <<"o", "v", "e", "r",
        "r", "i", "d", "e", " ">>, <<"s", "t", "a", "t", "i", "c", " ">>,
            <<"c", "l", "a", "s", "s", " ", "f", "u", "n", "c">>}

SwiftExtractor(text) ==
    LET ls      == Lines(text)
        offsets == LineMap(text)
        fns     == Unseen(captures_iter(RE_SWIFT_FN, text))
        classes == captures_iter(RE_SWIFT_CLASS, text)
    IN  SortByLineStart(
            [k \in 1..Len(fns) |->
                BraceFunction(text, ls, offsets, fns[k],
                    Contains(Matched(text, fns[k]), <<"a", "s", "y", "n",
                        "c">>),
                    \E w \in SwiftMethodMarks :
                        Contains(Matched(text, fns[k]), w),
                    <<>>)]
            \o [k \in 1..Len(classes) |->
                BraceClass(text, ls, offsets, classes[k])])

(* ruby.rs *)

RubyFunction(text, ls, offsets, m) ==
    LET first == offset_to_line(offsets, m.start - 1)
        last  == find_ruby_end(ls, first)
    IN  FunctionInfo(NameOf(text, m), first, last, ParamsOf(text, m), FALSE,
                     Contains(Matched(text, m), <<"s", "e", "l", "f", ".">>),
                     FALSE, None, <<>>,
                     estimate_complexity(BlockOf(ls, first, last)))

RubyClass(text, ls, offsets, m) ==
    LET first == offset_to_line(offsets, m.start - 1)
    IN  FunctionInfo(NameOf(text, m), first, find_ruby_end(ls, first), <<>>,
                     FALSE, FALSE, TRUE, None, <<>>, 1)

RubyExtractor(text) ==
    LET ls      == Lines(text)
        offsets == LineMap(text)
        fns     == Unseen(captures_iter(RE_RUBY_FN, text))
        classes == captures_iter(RE_RUBY_CLASS, text)
    IN  SortByLineStart(
            [k \in 1..Len(fns) |-> RubyFunction(text, ls, offsets, fns[k])]
            \o [k \in 1..Len(classes) |->
                RubyClass(text, ls, offsets, classes[k])])

(* nim.rs *)

NimFunction(text, ls, offsets, m) ==
    LET first  == offset_to_line(offsets, m.start - 1)
        indent == Len(GroupOr(text, m, "indent", <<>>))
        last   == find_indentation_end(ls, first, indent)
    IN  FunctionInfo(NameOf(text, m), first, last, ParamsOf(text, m), FALSE,
                     StartsWith(Matched(text, m), <<"m", "e", "t", "h", "o",
                         "d">>),
                     FALSE, None,
                     IF Contains(Matched(text, m), <<"*">>)
                     THEN <<<<"p", "u", "b", "l", "i", "c", "(", "*",
                         ")">>>> ELSE <<>>,
                     estimate_complexity(BlockOf(ls, first, last)))

NimExtractor(text) ==
    LET ls      == Lines(text)
        offsets == LineMap(text)
        fns     == captures_iter(RE_NIM_FN, text)
    IN  [k \in 1..Len(fns) |-> NimFunction(text, ls, offsets, fns[k])]

-----------------------------------------------------------------------------
(* extract_file_functions (counter/mod.rs) applied to bounded files        *)

UpperCase ==
    <<"A", "B", "C", "D", "E", "F", "G", "H", "I", "J", "K", "L", "M", "N", "O",
      "P", "Q", "R", "S", "T", "U", "V", "W", "X", "Y", "Z">>

LowerCase ==
    <<"a", "b", "c", "d", "e", "f", "g", "h", "i", "j", "k", "l", "m", "n", "o",
      "p", "q", "r", "s", "t", "u", "v", "w", "x", "y", "z">>

\* the letters of `from` replaced by the letters of `to` at the same index
MapCase(s, from, to) ==
    [i \in 1..Len(s) |->
        IF \E k \in 1..26 : from[k] = s[i]
        THEN to[CHOOSE k \in 1..26 : from[k] = s[i]] ELSE s[i]]

\* str::to_lowercase
to_lowercase(s) == MapCase(s, UpperCase, LowerCase)

\* str::to_uppercase
to_uppercase(s) == MapCase(s, LowerCase, UpperCase)

\* Path::extension of a file name: what follows the last dot, None if the
\* name has no dot or only the one it begins with
extension(name) ==
    LET dots == {i \in 1..Len(name) : name[i] = "."}
    IN  IF dots = {} \/ SetMax(dots) = 1 THEN None
        ELSE Some(Drop(name, SetMax(dots)))

\* the characters of s as one string
RECURSIVE Concat(_)
Concat(s) == IF s = <<>> THEN "" ELSE Head(s) \o Concat(Tail(s))

\* an extension taken as it is spelt, "." before it
ExtensionOf_CaseSensitive(name) ==
    IF extension(name) = None THEN ""
    ELSE "." \o Concat(extension(name)[1])

\* get_extractor, `let ext = ..`: the extension lowercased, "." before it,
\* the empty string if the path has none
ExtensionOf(name) ==
    IF extension(name) = None THEN ""
    ELSE "." \o Concat(to_lowercase(extension(name)[1]))

\* get_extractor, from the lowercased dotted extension: the extractor's name
get_extractor(e) ==
    CASE e = ".rs" -> "RustExtractor"
      [] e \in {".py", ".pyw", ".pyi"} -> "PythonExtractor"
      [] e \in {".js", ".mjs", ".cjs", ".ts", ".tsx", ".jsx"} ->
            "JavascriptExtractor"
      [] e = ".go" -> "GoExtractor"
      [] e \in {".c", ".h", ".cpp", ".cc", ".cxx", ".hpp", ".hxx"} ->
            "CppExtractor"
      [] e \in {".java", ".kt", ".kts", ".cs", ".scala"} -> "JavaExtractor"
      [] e \in {".php", ".php3", ".php4", ".php5", ".phtml"} -> "PhpExtractor"
      [] e = ".swift" -> "SwiftExtractor"
      [] e \in {".rb", ".rake", ".gemspec"} -> "RubyExtractor"
      [] e \in {".nim", ".nims"} -> "NimExtractor"
      [] OTHER -> "None"

\* the extensions of the files drawn: every extension get_extractor knows,
\* one it does not know, and no extension
Extensions ==
    {".rs", ".py", ".pyw", ".pyi", ".js", ".mjs", ".cjs", ".ts", ".tsx",
     ".jsx", ".go", ".c", ".h", ".cpp", ".cc", ".cxx", ".hpp", ".hxx",
     ".java", ".kt", ".kts", ".cs", ".scala", ".php", ".php3", ".php4",
     ".php5", ".phtml", ".swift", ".rb", ".rake", ".gemspec", ".nim", ".nims",
     ".txt", ".", ""}

(* rust.rs source lines *)

\* pub async fn a(x: u8, y: Vec<T>) {
RsAsyncFn ==
    <<"p", "u", "b", " ", "a", "s", "y", "n", "c", " ", "f", "n", " ", "a",
      "(", "x", ":", " ", "u", "8", ",", " ", "y", ":", " ", "V", "e", "c",
      "<", "T", ">", ")", " ", "{">>

\*     fn b() {}
RsFn ==
    <<" ", " ", " ", " ", "f", "n", " ", "b", "(", ")", " ", "{", "}">>

\* pub struct S {
RsStruct ==
    <<"p", "u", "b", " ", "s", "t", "r", "u", "c", "t", " ", "S", " ", "{">>

\*   if x && y { }
RsBranch ==
    <<" ", " ", "i", "f", " ", "x", " ", "&", "&", " ", "y", " ", "{", " ",
      "}">>

\* }
RsClose ==
    <<"}">>

RustLines == {RsAsyncFn, RsFn, RsStruct, RsBranch, RsClose}

(* python.rs source lines *)

\* def f(self, a):
PyMethod ==
    <<"d", "e", "f", " ", "f", "(", "s", "e", "l", "f", ",", " ", "a", ")",
      ":">>

\*     async def g():
PyAsyncDef ==
    <<" ", " ", " ", " ", "a", "s", "y", "n", "c", " ", "d", "e", "f", " ",
      "g", "(", ")", ":">>

\* class C(B):
PyClass ==
    <<"c", "l", "a", "s", "s", " ", "C", "(", "B", ")", ":">>

\*     if a and b:
PyBranch ==
    <<" ", " ", " ", " ", "i", "f", " ", "a", " ", "a", "n", "d", " ", "b",
      ":">>

\* x = 1
PyAssign ==
    <<"x", " ", "=", " ", "1">>

PythonLines == {PyMethod, PyAsyncDef, PyClass, PyBranch, PyAssign}

(* javascript.rs source lines *)

\* export async function f(a, b) {
JsAsyncFn ==
    <<"e", "x", "p", "o", "r", "t", " ", "a", "s", "y", "n", "c", " ", "f",
      "u", "n", "c", "t", "i", "o", "n", " ", "f", "(", "a", ",", " ", "b",
      ")", " ", "{">>

\* const g = (x) => {
JsArrow ==
    <<"c", "o", "n", "s", "t", " ", "g", " ", "=", " ", "(", "x", ")", " ",
      "=", ">", " ", "{">>

\*   m(y) {
JsMember ==
    <<" ", " ", "m", "(", "y", ")", " ", "{">>

\* class K {
JsClass ==
    <<"c", "l", "a", "s", "s", " ", "K", " ", "{">>

\* }
JsClose ==
    <<"}">>

JsLines == {JsAsyncFn, JsArrow, JsMember, JsClass, JsClose}

(* go.rs source lines *)

\* func (r *Repo) Get(id int) string { return "" }
GoMethod ==
    <<"f", "u", "n", "c", " ", "(", "r", " ", "*", "R", "e", "p", "o", ")",
      " ", "G", "e", "t", "(", "i", "d", " ", "i", "n", "t", ")", " ", "s",
      "t", "r", "i", "n", "g", " ", "{", " ", "r", "e", "t", "u", "r", "n",
      " ", DQ, DQ, " ", "}">>

\* func Hello() {
GoFunc ==
    <<"f", "u", "n", "c", " ", "H", "e", "l", "l", "o", "(", ")", " ", "{">>

\*   if a || b {
GoBranch ==
    <<" ", " ", "i", "f", " ", "a", " ", "|", "|", " ", "b", " ", "{">>

\*   return ""
GoReturn ==
    <<" ", " ", "r", "e", "t", "u", "r", "n", " ", DQ, DQ>>

\* }
GoClose ==
    <<"}">>

GoLines == {GoMethod, GoFunc, GoBranch, GoReturn, GoClose}

(* cpp.rs source lines *)

\* int main(int argc, char** argv) {
CMain ==
    <<"i", "n", "t", " ", "m", "a", "i", "n", "(", "i", "n", "t", " ", "a",
      "r", "g", "c", ",", " ", "c", "h", "a", "r", "*", "*", " ", "a", "r",
      "g", "v", ")", " ", "{">>

\* void f(void) {}
CVoid ==
    <<"v", "o", "i", "d", " ", "f", "(", "v", "o", "i", "d", ")", " ", "{",
      "}">>

\*   while (x) {
CWhile ==
    <<" ", " ", "w", "h", "i", "l", "e", " ", "(", "x", ")", " ", "{">>

\* // }
CComment ==
    <<"/", "/", " ", "}">>

\* }
CClose ==
    <<"}">>

CppLines == {CMain, CVoid, CWhile, CComment, CClose}

(* java.rs source lines *)

\*   public static void main(String[] args) {
JavaMain ==
    <<" ", " ", "p", "u", "b", "l", "i", "c", " ", "s", "t", "a", "t", "i",
      "c", " ", "v", "o", "i", "d", " ", "m", "a", "i", "n", "(", "S", "t",
      "r", "i", "n", "g", "[", "]", " ", "a", "r", "g", "s", ")", " ", "{">>

\*   int calc(int a, int b) => a + b;
JavaArrow ==
    <<" ", " ", "i", "n", "t", " ", "c", "a", "l", "c", "(", "i", "n", "t",
      " ", "a", ",", " ", "i", "n", "t", " ", "b", ")", " ", "=", ">", " ",
      "a", " ", "+", " ", "b", ";">>

\*   if (a) {
JavaIf ==
    <<" ", " ", "i", "f", " ", "(", "a", ")", " ", "{">>

\*   } catch (E e) {
JavaCatch ==
    <<" ", " ", "}", " ", "c", "a", "t", "c", "h", " ", "(", "E", " ", "e",
      ")", " ", "{">>

\* }
JavaClose ==
    <<"}">>

JavaLines == {JavaMain, JavaArrow, JavaIf, JavaCatch, JavaClose}

(* php.rs source lines *)

\*   public function getName($id) {
PhpMethod ==
    <<" ", " ", "p", "u", "b", "l", "i", "c", " ", "f", "u", "n", "c", "t",
      "i", "o", "n", " ", "g", "e", "t", "N", "a", "m", "e", "(", "$", "i",
      "d", ")", " ", "{">>

\* function helper() {}
PhpFunc ==
    <<"f", "u", "n", "c", "t", "i", "o", "n", " ", "h", "e", "l", "p", "e",
      "r", "(", ")", " ", "{", "}">>

\* class User {
PhpClass ==
    <<"c", "l", "a", "s", "s", " ", "U", "s", "e", "r", " ", "{">>

\*     return 'k';
PhpReturn ==
    <<" ", " ", " ", " ", "r", "e", "t", "u", "r", "n", " ", SQ, "k", SQ,
      ";">>

\* }
PhpClose ==
    <<"}">>

PhpLines == {PhpMethod, PhpFunc, PhpClass, PhpReturn, PhpClose}

(* swift.rs source lines *)

\* public func fetch() async -> Data? {
SwiftAsync ==
    <<"p", "u", "b", "l", "i", "c", " ", "f", "u", "n", "c", " ", "f", "e",
      "t", "c", "h", "(", ")", " ", "a", "s", "y", "n", "c", " ", "-", ">",
      " ", "D", "a", "t", "a", "?", " ", "{">>

\*   override func start() {}
SwiftOverride ==
    <<" ", " ", "o", "v", "e", "r", "r", "i", "d", "e", " ", "f", "u", "n",
      "c", " ", "s", "t", "a", "r", "t", "(", ")", " ", "{", "}">>

\* struct Point {
SwiftStruct ==
    <<"s", "t", "r", "u", "c", "t", " ", "P", "o", "i", "n", "t", " ", "{">>

\*   var x, y: Double
SwiftVar ==
    <<" ", " ", "v", "a", "r", " ", "x", ",", " ", "y", ":", " ", "D", "o",
      "u", "b", "l", "e">>

\* }
SwiftClose ==
    <<"}">>

SwiftLines == {SwiftAsync, SwiftOverride, SwiftStruct, SwiftVar, SwiftClose}

(* ruby.rs source lines *)

\* def self.log(msg)
RubySelfDef ==
    <<"d", "e", "f", " ", "s", "e", "l", "f", ".", "l", "o", "g", "(", "m",
      "s", "g", ")">>

\*   def name
RubyDef ==
    <<" ", " ", "d", "e", "f", " ", "n", "a", "m", "e">>

\* class User < Base
RubyClassLine ==
    <<"c", "l", "a", "s", "s", " ", "U", "s", "e", "r", " ", "<", " ", "B",
      "a", "s", "e">>

\*   if x
RubyIf ==
    <<" ", " ", "i", "f", " ", "x">>

\* end
RubyEndLine ==
    <<"e", "n", "d">>

RubyLines == {RubySelfDef, RubyDef, RubyClassLine, RubyIf, RubyEndLine}

(* nim.rs source lines *)

\* proc hello*(name: string) =
NimProc ==
    <<"p", "r", "o", "c", " ", "h", "e", "l", "l", "o", "*", "(", "n", "a",
      "m", "e", ":", " ", "s", "t", "r", "i", "n", "g", ")", " ", "=">>

\* method draw(s: Shape) =
NimMethod ==
    <<"m", "e", "t", "h", "o", "d", " ", "d", "r", "a", "w", "(", "s", ":",
      " ", "S", "h", "a", "p", "e", ")", " ", "=">>

\*   func add(a, b: int): int =
NimIndented ==
    <<" ", " ", "f", "u", "n", "c", " ", "a", "d", "d", "(", "a", ",", " ",
      "b", ":", " ", "i", "n", "t", ")", ":", " ", "i", "n", "t", " ", "=">>

\*   echo a
NimEcho ==
    <<" ", " ", "e", "c", "h", "o", " ", "a">>

\* discard
NimStmt ==
    <<"d", "i", "s", "c", "a", "r", "d">>

NimLines == {NimProc, NimMethod, NimIndented, NimEcho, NimStmt}

\* the content of the unit test of go.rs
GoTestContent ==
    <<NL, "p", "a", "c", "k", "a", "g", "e", " ", "m", "a", "i", "n", NL,
      "f", "u", "n", "c", " ", "H", "e", "l", "l", "o", "(", ")", " ", "{",
      "}", NL, "f", "u", "n", "c", " ", "(", "r", " ", "*", "R", "e", "p",
      "o", ")", " ", "G", "e", "t", "(", "i", "d", " ", "i", "n", "t", ")",
      " ", "s", "t", "r", "i", "n", "g", " ", "{", NL, " ", " ", " ", " ",
      "r", "e", "t", "u", "r", "n", " ", DQ, DQ, NL, "}", NL>>

\* the content of the unit test of cpp.rs
CppTestContent ==
    <<NL, "v", "o", "i", "d", " ", "H", "e", "l", "l", "o", "(", ")", " ",
      "{", "}", NL, "i", "n", "t", " ", "m", "a", "i", "n", "(", "i", "n",
      "t", " ", "a", "r", "g", "c", ",", " ", "c", "h", "a", "r", "*", "*",
      " ", "a", "r", "g", "v", ")", " ", "{", " ", "r", "e", "t", "u", "r",
      "n", " ", "0", ";", " ", "}", NL, "c", "l", "a", "s", "s", " ", "B",
      "o", "x", " ", "{", NL, "p", "u", "b", "l", "i", "c", ":", NL, " ",
      " ", " ", " ", "v", "o", "i", "d", " ", "S", "e", "t", "W", "i", "d",
      "t", "h", "(", "d", "o", "u", "b", "l", "e", " ", "w", "i", "d", ")",
      " ", "{", "}", NL, "}", ";", NL>>

\* the content of the unit test of java.rs
JavaTestContent ==
    <<NL, "p", "u", "b", "l", "i", "c", " ", "c", "l", "a", "s", "s", " ",
      "M", "a", "i", "n", " ", "{", NL, " ", " ", " ", " ", "p", "u", "b",
      "l", "i", "c", " ", "s", "t", "a", "t", "i", "c", " ", "v", "o", "i",
      "d", " ", "m", "a", "i", "n", "(", "S", "t", "r", "i", "n", "g", "[",
      "]", " ", "a", "r", "g", "s", ")", " ", "{", "}", NL, " ", " ", " ",
      " ", "p", "r", "i", "v", "a", "t", "e", " ", "i", "n", "t", " ", "c",
      "a", "l", "c", "(", "i", "n", "t", " ", "a", ",", " ", "i", "n", "t",
      " ", "b", ")", " ", "=", ">", " ", "a", " ", "+", " ", "b", ";", NL,
      "}", NL>>

\* the content of the unit test of php.rs
PhpTestContent ==
    <<NL, "<", "?", "p", "h", "p", NL, "c", "l", "a", "s", "s", " ", "U",
      "s", "e", "r", " ", "{", NL, " ", " ", " ", " ", "p", "u", "b", "l",
      "i", "c", " ", "f", "u", "n", "c", "t", "i", "o", "n", " ", "g", "e",
      "t", "N", "a", "m", "e", "(", "$", "i", "d", ")", " ", "{", NL, " ",
      " ", " ", " ", " ", " ", " ", " ", "r", "e", "t", "u", "r", "n", " ",
      SQ, "k", "e", "l", "e", "x", "i", "n", "e", SQ, ";", NL, " ", " ",
      " ", " ", "}", NL, "}", NL, "f", "u", "n", "c", "t", "i", "o", "n",
      " ", "h", "e", "l", "p", "e", "r", "(", ")", " ", "{", "}", NL>>

\* the content of the unit test of swift.rs
SwiftTestContent ==
    <<NL, "i", "m", "p", "o", "r", "t", " ", "F", "o", "u", "n", "d", "a",
      "t", "i", "o", "n", NL, "f", "u", "n", "c", " ", "h", "e", "l", "l",
      "o", "(", ")", " ", "{", "}", NL, "p", "u", "b", "l", "i", "c", " ",
      "f", "u", "n", "c", " ", "f", "e", "t", "c", "h", "D", "a", "t", "a",
      "(", ")", " ", "a", "s", "y", "n", "c", " ", "-", ">", " ", "D", "a",
      "t", "a", "?", " ", "{", " ", "r", "e", "t", "u", "r", "n", " ", "n",
      "i", "l", " ", "}", NL, "c", "l", "a", "s", "s", " ", "S", "e", "r",
      "v", "i", "c", "e", " ", "{", NL, " ", " ", " ", " ", "o", "v", "e",
      "r", "r", "i", "d", "e", " ", "f", "u", "n", "c", " ", "s", "t", "a",
      "r", "t", "(", ")", " ", "{", "}", NL, "}", NL, "s", "t", "r", "u",
      "c", "t", " ", "P", "o", "i", "n", "t", " ", "{", NL, " ", " ", " ",
      " ", "v", "a", "r", " ", "x", ",", " ", "y", ":", " ", "D", "o", "u",
      "b", "l", "e", NL, " ", " ", " ", " ", "m", "u", "t", "a", "t", "i",
      "n", "g", " ", "f", "u", "n", "c", " ", "m", "o", "v", "e", "B", "y",
      "(", "x", " ", "d", "e", "l", "t", "a", "X", ":", " ", "D", "o", "u",
      "b", "l", "e", ",", " ", "y", " ", "d", "e", "l", "t", "a", "Y", ":",
      " ", "D", "o", "u", "b", "l", "e", ")", " ", "{", "}", NL, "}", NL>>

\* the content of the unit test of ruby.rs
RubyTestContent ==
    <<NL, "m", "o", "d", "u", "l", "e", " ", "U", "t", "i", "l", "s", NL,
      " ", " ", "d", "e", "f", " ", "s", "e", "l", "f", ".", "l", "o", "g",
      "(", "m", "s", "g", ")", NL, " ", " ", " ", " ", "p", "u", "t", "s",
      " ", "m", "s", "g", NL, " ", " ", "e", "n", "d", NL, "e", "n", "d",
      NL, NL, "c", "l", "a", "s", "s", " ", "U", "s", "e", "r", NL, " ",
      " ", "d", "e", "f", " ", "i", "n", "i", "t", "i", "a", "l", "i", "z",
      "e", "(", "n", "a", "m", "e", ")", NL, " ", " ", " ", " ", "@", "n",
      "a", "m", "e", " ", "=", " ", "n", "a", "m", "e", NL, " ", " ", "e",
      "n", "d", NL, " ", " ", NL, " ", " ", "d", "e", "f", " ", "n", "a",
      "m", "e", NL, " ", " ", " ", " ", "@", "n", "a", "m", "e", NL, " ",
      " ", "e", "n", "d", NL, "e", "n", "d", NL>>

\* the content of the unit test of nim.rs
NimTestContent ==
    <<NL, "p", "r", "o", "c", " ", "h", "e", "l", "l", "o", "*", "(", "n",
      "a", "m", "e", ":", " ", "s", "t", "r", "i", "n", "g", ")", " ", "=",
      NL, " ", " ", "e", "c", "h", "o", " ", DQ, "H", "e", "l", "l", "o",
      " ", DQ, ",", " ", "n", "a", "m", "e", NL, NL, "f", "u", "n", "c",
      " ", "a", "d", "d", "(", "a", ",", " ", "b", ":", " ", "i", "n", "t",
      ")", ":", " ", "i", "n", "t", " ", "=", NL, " ", " ", "a", " ", "+",
      " ", "b", NL, NL, "m", "e", "t", "h", "o", "d", " ", "d", "r", "a",
      "w", "(", "s", ":", " ", "S", "h", "a", "p", "e", ")", " ", "=", NL,
      " ", " ", "d", "i", "s", "c", "a", "r", "d", NL>>

\* most library lines in one file
MaxContentLines == 2

\* lines of filler after a signature whose body is never closed
LongFile == FallbackSpan + 5

\* the files made of at most MaxContentLines library lines
FilesOf(lib) == {JoinNl(ls) : ls \in SeqUpTo(lib, MaxContentLines)}

\* a signature line followed by LongFile lines that close no brace
Unclosed(sig) == JoinNl([k \in 1..(LongFile + 1) |-> IF k = 1 THEN sig ELSE <<"x">>])

\* a file holding every library line once
Sample(lib_lines) == JoinNl(lib_lines) \o <<NL>>

RustSample == Sample(<<RsAsyncFn, RsFn, RsStruct, RsBranch, RsClose>>)

PythonSample == Sample(<<PyMethod, PyAsyncDef, PyClass, PyBranch, PyAssign>>)

JsSample == Sample(<<JsAsyncFn, JsArrow, JsMember, JsClass, JsClose>>)

(* nim.rs: an indented method *)

\*   method draw(s: Shape) =
NimMethodIndented == <<" ", " ">> \o NimMethod

\* type Shape = object
NimType ==
    <<"t", "y", "p", "e", " ", "S", "h", "a", "p", "e", " ", "=", " ", "o",
      "b", "j", "e", "c", "t">>

NimMethodFiles ==
    {NimMethodIndented,
     JoinNl(<<NimType, NimMethodIndented>>),
     JoinNl(<<NimMethodIndented, NimProc>>),
     JoinNl(<<NimMethod, NimMethodIndented>>)}

(* lines that look like calls of a keyword *)

\* if (x) {
IfLine ==
    <<"i", "f", " ", "(", "x", ")", " ", "{">>

\* ` (x) {` after a word
CallTail ==
    <<" ", "(", "x", ")", " ", "{">>

\* the forms of the line `if (x) {`: alone, indented, after else
IfForms ==
    {IfLine,
     <<" ", " ">> \o IfLine,
     <<"e", "l", "s", "e", " ">> \o IfLine,
     <<" ", " ", "e", "l", "s", "e", " ">> \o IfLine,
     <<"}", " ", "e", "l", "s", "e", " ">> \o IfLine}

\* a comment whose second line opens with the word class
\* /* the
\*    class for requests */
DocCommentClass ==
    <<"/", "*", " ", "t", "h", "e", NL, " ", " ", " ", "c", "l", "a", "s",
      "s", " ", "f", "o", "r", " ", "r", "e", "q", "u", "e", "s", "t", "s",
      " ", "*", "/">>

\* the word class or struct on the line before `if (x) {`
KindThenIf(kind) == kind \o <<NL>> \o IfLine

\* files of keyword lines: every form of the if line, every denied word of
\* the three denylists as an indented call and after a type-like word, the
\* comment, and the if line below a class or struct keyword
DenyFiles ==
    IfForms
    \cup {<<" ", " ">> \o w \o CallTail : w \in JsSkip \cup CppSkip \cup JavaSkip}
    \cup {<<" ", " ", "e", "l", "s", "e", " ">> \o w \o CallTail :
             w \in JsSkip \cup CppSkip \cup JavaSkip}
    \cup {DocCommentClass,
          KindThenIf(<<"c", "l", "a", "s", "s">>),
          KindThenIf(<<"s", "t", "r", "u", "c", "t">>)}

(* javascript.rs: classes with members *)

\*   static get v() {
JsStaticGet ==
    <<" ", " ", "s", "t", "a", "t", "i", "c", " ", "g", "e", "t", " ", "v",
      "(", ")", " ", "{">>

\*   async load(u) {
JsAsyncLoad ==
    <<" ", " ", "a", "s", "y", "n", "c", " ", "l", "o", "a", "d", "(", "u",
      ")", " ", "{">>

\*   constructor(a) {
JsConstructor ==
    <<" ", " ", "c", "o", "n", "s", "t", "r", "u", "c", "t", "o", "r", "(",
      "a", ")", " ", "{">>

JsMemberLines == {JsMember, JsStaticGet, JsAsyncLoad, JsConstructor}

\* most member lines in the body of a class
MaxMembers == 2

\* `class K {`, at least one and at most MaxMembers member lines, and `}`
JsClassFiles ==
    {JoinNl(<<JsClass>> \o ms \o <<JsClose>>) :
        ms \in SeqUpTo(JsMemberLines, MaxMembers) \ {<<>>}}

(* signatures that hold a balanced brace pair before the body *)

\* function f({a, b}) {
JsDestructured ==
    <<"f", "u", "n", "c", "t", "i", "o", "n", " ", "f", "(", "{", "a", ",",
      " ", "b", "}", ")", " ", "{">>

\*   return a;
JsReturn ==
    <<" ", " ", "r", "e", "t", "u", "r", "n", " ", "a", ";">>

\* func f(x interface{}) {
GoEmptyInterface ==
    <<"f", "u", "n", "c", " ", "f", "(", "x", " ", "i", "n", "t", "e", "r",
      "f", "a", "c", "e", "{", "}", ")", " ", "{">>

\* each signature, a line of body and the closing brace on the third line
BracePairFiles ==
    {JoinNl(<<JsDestructured, JsReturn, JsClose>>),
     JoinNl(<<GoEmptyInterface, GoReturn, GoClose>>)}

(* rust.rs: attributes above functions *)

\* #[test]
RsTestAttr ==
    <<"#", "[", "t", "e", "s", "t", "]">>

\* #[tokio::test]
RsTokioTestAttr ==
    <<"#", "[", "t", "o", "k", "i", "o", ":", ":", "t", "e", "s", "t", "]">>

\* #[inline]
RsInlineAttr ==
    <<"#", "[", "i", "n", "l", "i", "n", "e", "]">>

\* fn t() {}
RsTestFn ==
    <<"f", "n", " ", "t", "(", ")", " ", "{", "}">>

\* fn helper() {}
RsHelperFn ==
    <<"f", "n", " ", "h", "e", "l", "p", "e", "r", "(", ")", " ", "{", "}">>

\* a test function under its attribute, then a function of its own: after
\* an empty line, directly below, and under an attribute that is no test
RustAttrFiles ==
    {JoinNl(<<a, RsTestFn>> \o between \o <<RsHelperFn>>) :
        a \in {RsTestAttr, RsTokioTestAttr},
        between \in {<<>>, <<<<>>>>, <<RsInlineAttr>>, <<<<>>, RsInlineAttr>>}}
    \cup {JoinNl(<<RsHelperFn, a, RsTestFn>>) :
             a \in {RsTestAttr, RsTokioTestAttr}}

(* swift.rs: the word async in a signature *)

\* func asyncLoad() {
SwiftAsyncLoad ==
    <<"f", "u", "n", "c", " ", "a", "s", "y", "n", "c", "L", "o", "a", "d",
      "(", ")", " ", "{">>

\* func load() async {
SwiftLoadAsync ==
    <<"f", "u", "n", "c", " ", "l", "o", "a", "d", "(", ")", " ", "a", "s",
      "y", "n", "c", " ", "{">>

\* func run(async flag: Bool) {
SwiftAsyncLabel ==
    <<"f", "u", "n", "c", " ", "r", "u", "n", "(", "a", "s", "y", "n", "c",
      " ", "f", "l", "a", "g", ":", " ", "B", "o", "o", "l", ")", " ", "{">>

\* func load() throws {
SwiftLoadThrows ==
    <<"f", "u", "n", "c", " ", "l", "o", "a", "d", "(", ")", " ", "t", "h",
      "r", "o", "w", "s", " ", "{">>

\* one signature and the closing brace
SwiftAsyncFiles ==
    {JoinNl(<<sig, SwiftClose>>) :
        sig \in {SwiftAsyncLoad, SwiftLoadAsync, SwiftAsyncLabel,
                  SwiftLoadThrows}}

\* the files drawn for an extension: under the first extension of a
\* language every file of at most MaxContentLines library lines, under every
\* extension of it the example file of the language
Sources(e) ==
    CASE e = ".rs" ->
            FilesOf(RustLines) \cup DenyFiles \cup RustAttrFiles
                \cup {RustSample} \cup {Unclosed(RsAsyncFn)}
      [] e = ".py" -> FilesOf(PythonLines) \cup {PythonSample}
      [] e \in {".pyw", ".pyi"} -> {PythonSample}
      [] e = ".js" ->
            FilesOf(JsLines) \cup DenyFiles \cup JsClassFiles
                \cup BracePairFiles \cup {JsSample} \cup {Unclosed(JsArrow)}
      [] e \in {".mjs", ".cjs", ".ts", ".tsx", ".jsx"} -> {JsSample}
      [] e = ".go" ->
            FilesOf(GoLines) \cup DenyFiles \cup BracePairFiles
                \cup {GoTestContent} \cup {Unclosed(GoFunc)}
      [] e = ".c" -> FilesOf(CppLines) \cup DenyFiles \cup {CppTestContent}
      [] e \in {".h", ".cpp", ".cc", ".cxx", ".hpp", ".hxx"} ->
            {CppTestContent}
      [] e = ".java" ->
            FilesOf(JavaLines) \cup DenyFiles \cup {JavaTestContent}
      [] e \in {".kt", ".kts", ".cs", ".scala"} -> {JavaTestContent}
      [] e = ".php" -> FilesOf(PhpLines) \cup DenyFiles \cup {PhpTestContent}
      [] e \in {".php3", ".php4", ".php5", ".phtml"} -> {PhpTestContent}
      [] e = ".swift" ->
            FilesOf(SwiftLines) \cup DenyFiles \cup SwiftAsyncFiles
                \cup {SwiftTestContent}
      [] e = ".rb" -> FilesOf(RubyLines) \cup {RubyTestContent}
      [] e \in {".rake", ".gemspec"} -> {RubyTestContent}
      [] e = ".nim" ->
            FilesOf(NimLines) \cup NimMethodFiles \cup {NimTestContent}
      [] e \in {".nims"} -> {NimTestContent}
      [] OTHER -> {GoTestContent, <<>>}

\* the extensions get_extractor knows, as they are spelt in a file name
KnownSuffixes ==
    {<<"r", "s">>, <<"p", "y">>, <<"p", "y", "w">>, <<"p", "y", "i">>,
     <<"j", "s">>, <<"m", "j", "s">>, <<"c", "j", "s">>, <<"t", "s">>,
     <<"t", "s", "x">>, <<"j", "s", "x">>, <<"g", "o">>, <<"c">>, <<"h">>,
     <<"c", "p", "p">>, <<"c", "c">>, <<"c", "x", "x">>, <<"h", "p", "p">>,
     <<"h", "x", "x">>, <<"j", "a", "v", "a">>, <<"k", "t">>, <<"k", "t",
     "s">>, <<"c", "s">>, <<"s", "c", "a", "l", "a">>, <<"p", "h", "p">>,
     <<"p", "h", "p", "3">>, <<"p", "h", "p", "4">>, <<"p", "h", "p",
     "5">>, <<"p", "h", "t", "m", "l">>, <<"s", "w", "i", "f", "t">>,
     <<"r", "b">>, <<"r", "a", "k", "e">>, <<"g", "e", "m", "s", "p", "e",
     "c">>, <<"n", "i", "m">>, <<"n", "i", "m", "s">>}

\* the file names spelt in lower case: one for each known extension, one
\* with an extension that is not known, and one with none
PlainPaths ==
    {<<"m", ".">> \o e : e \in KnownSuffixes}
    \cup {<<"m", ".", "t", "x", "t">>,
          <<"M", "a", "k", "e", "f", "i", "l", "e">>}

\* the same names in capitals and capitalised, a name that is only a dot
\* and an extension, names with two dots, and a name that ends with a dot
OtherPaths ==
    {<<"M", ".">> \o to_uppercase(e) : e \in KnownSuffixes}
    \cup {<<"m", ".">> \o to_uppercase(Take(e, 1)) \o Drop(e, 1) :
             e \in KnownSuffixes}
    \cup {<<".", "r", "s">>, <<".", "P", "Y">>,
          <<"a", ".", "p", "y", ".", "T", "X", "T">>,
          <<"a", ".", "t", "x", "t", ".", "P", "y">>,
          <<"m", ".">>}

Paths == PlainPaths \cup OtherPaths

\* a file on which the extractor of the extension returns records
ExampleOf(e) ==
    CASE get_extractor(e) = "RustExtractor" -> RustSample
      [] get_extractor(e) = "PythonExtractor" -> PythonSample
      [] get_extractor(e) = "JavascriptExtractor" -> JsSample
      [] get_extractor(e) = "GoExtractor" -> GoTestContent
      [] get_extractor(e) = "CppExtractor" -> CppTestContent
      [] get_extractor(e) = "JavaExtractor" -> JavaTestContent
      [] get_extractor(e) = "PhpExtractor" -> PhpTestContent
      [] get_extractor(e) = "SwiftExtractor" -> SwiftTestContent
      [] get_extractor(e) = "RubyExtractor" -> RubyTestContent
      [] get_extractor(e) = "NimExtractor" -> NimTestContent
      [] OTHER -> GoTestContent

\* the files drawn for a path: the files of its extension under a plain
\* name, one example under the other names
ContentFor(name) ==
    IF name \in PlainPaths THEN Sources(ExtensionOf(name))
    ELSE {ExampleOf(ExtensionOf(to_lowercase(name)))}

Init ==
    /\ pc = "ready"
    /\ path \in Paths
    /\ ext = ExtensionOf(path)
    /\ content \in ContentFor(path)
    /\ NoMap /\ NoDoc /\ NoScan
    /\ functions = <<>>
    /\ lines = <<>> /\ start_line = 0 /\ base_indent = 0 /\ line_end = 0
    /\ raw = <<>> /\ params = <<>> /\ block = <<>> /\ cc = 0

\* extract_file_functions on a readable file: `ext.extract(&content)` with
\* the extractor get_extractor chose, one action for each extractor

\* `ext.extract(&content)` through the trait object: the extractor chosen
ExtractWith(kind, text) ==
    CASE kind = "RustExtractor" -> RustExtractor(text)
      [] kind = "PythonExtractor" -> PythonExtractor(text)
      [] kind = "JavascriptExtractor" -> JavascriptExtractor(text)
      [] kind = "GoExtractor" -> GoExtractor(text)
      [] kind = "CppExtractor" -> CppExtractor(text)
      [] kind = "JavaExtractor" -> JavaExtractor(text)
      [] kind = "PhpExtractor" -> PhpExtractor(text)
      [] kind = "SwiftExtractor" -> SwiftExtractor(text)
      [] kind = "RubyExtractor" -> RubyExtractor(text)
      [] kind = "NimExtractor" -> NimExtractor(text)
      [] OTHER -> <<>>

ExtractRust ==
    /\ pc = "ready"
    /\ get_extractor(ext) = "RustExtractor"
    /\ functions' = RustExtractor(content)
    /\ pc' = "done"
    /\ UNCHANGED <<map_vars, doc_vars, scan_vars, path, content, ext, lines, start_line, base_indent, line_end,
                   raw, params, block, cc>>

ExtractPython ==
    /\ pc = "ready"
    /\ get_extractor(ext) = "PythonExtractor"
    /\ functions' = PythonExtractor(content)
    /\ pc' = "done"
    /\ UNCHANGED <<map_vars, doc_vars, scan_vars, path, content, ext, lines, start_line, base_indent, line_end,
                   raw, params, block, cc>>

ExtractJavascript ==
    /\ pc = "ready"
    /\ get_extractor(ext) = "JavascriptExtractor"
    /\ functions' = JavascriptExtractor(content)
    /\ pc' = "done"
    /\ UNCHANGED <<map_vars, doc_vars, scan_vars, path, content, ext, lines, start_line, base_indent, line_end,
                   raw, params, block, cc>>

ExtractGo ==
    /\ pc = "ready"
    /\ get_extractor(ext) = "GoExtractor"
    /\ functions' = GoExtractor(content)
    /\ pc' = "done"
    /\ UNCHANGED <<map_vars, doc_vars, scan_vars, path, content, ext, lines, start_line, base_indent, line_end,
                   raw, params, block, cc>>

ExtractCpp ==
    /\ pc = "ready"
    /\ get_extractor(ext) = "CppExtractor"
    /\ functions' = CppExtractor(content)
    /\ pc' = "done"
    /\ UNCHANGED <<map_vars, doc_vars, scan_vars, path, content, ext, lines, start_line, base_indent, line_end,
                   raw, params, block, cc>>

ExtractJava ==
    /\ pc = "ready"
    /\ get_extractor(ext) = "JavaExtractor"
    /\ functions' = JavaExtractor(content)
    /\ pc' = "done"
    /\ UNCHANGED <<map_vars, doc_vars, scan_vars, path, content, ext, lines, start_line, base_indent, line_end,
                   raw, params, block, cc>>

ExtractPhp ==
    /\ pc = "ready"
    /\ get_extractor(ext) = "PhpExtractor"
    /\ functions' = PhpExtractor(content)
    /\ pc' = "done"
    /\ UNCHANGED <<map_vars, doc_vars, scan_vars, path, content, ext, lines, start_line, base_indent, line_end,
                   raw, params, block, cc>>

ExtractSwift ==
    /\ pc = "ready"
    /\ get_extractor(ext) = "SwiftExtractor"
    /\ functions' = SwiftExtractor(content)
    /\ pc' = "done"
    /\ UNCHANGED <<map_vars, doc_vars, scan_vars, path, content, ext, lines, start_line, base_indent, line_end,
                   raw, params, block, cc>>

ExtractRuby ==
    /\ pc = "ready"
    /\ get_extractor(ext) = "RubyExtractor"
    /\ functions' = RubyExtractor(content)
    /\ pc' = "done"
    /\ UNCHANGED <<map_vars, doc_vars, scan_vars, path, content, ext, lines, start_line, base_indent, line_end,
                   raw, params, block, cc>>

ExtractNim ==
    /\ pc = "ready"
    /\ get_extractor(ext) = "NimExtractor"
    /\ functions' = NimExtractor(content)
    /\ pc' = "done"
    /\ UNCHANGED <<map_vars, doc_vars, scan_vars, path, content, ext, lines, start_line, base_indent, line_end,
                   raw, params, block, cc>>

\* no extractor for the extension: `vec![]`
ExtractNothing ==
    /\ pc = "ready"
    /\ get_extractor(ext) = "None"
    /\ functions' = <<>>
    /\ pc' = "done"
    /\ UNCHANGED <<map_vars, doc_vars, scan_vars, path, content, ext, lines, start_line, base_indent, line_end,
                   raw, params, block, cc>>

\* the same call made a second time on the same file
ExtractAgain ==
    /\ pc = "done"
    /\ functions' = ExtractWith(get_extractor(ext), content)
    /\ pc' = "again"
    /\ UNCHANGED <<map_vars, doc_vars, scan_vars, path, content, ext, lines, start_line, base_indent, line_end,
                   raw, params, block, cc>>

Next ==
    \/ ExtractRust
    \/ ExtractPython
    \/ ExtractJavascript
    \/ ExtractGo
    \/ ExtractCpp
    \/ ExtractJava
    \/ ExtractPhp
    \/ ExtractSwift
    \/ ExtractRuby
    \/ ExtractNim
    \/ ExtractNothing
    \/ ExtractAgain

Spec == Init /\ [][Next]_vars

\* C1: every record an extractor returns has 1 <= line_start <= line_end and
\* complexity >= 1, whichever extractor produced it and also when the
\* boundary resolver fell back to its default.
C1_RecordInvariant ==
    pc = "done" =>
        \A k \in 1..Len(functions) :
            /\ 1 <= functions[k].line_start
            /\ functions[k].line_start <= functions[k].line_end
            /\ functions[k].complexity >= 1

\* an unclosed body in a file longer than the fallback span: the record ends
\* FallbackSpan lines below its start, before the end of the file
C1_Witness ==
    /\ pc = "done"
    /\ \E k \in 1..Len(functions) :
          /\ functions[k].line_end = functions[k].line_start + FallbackSpan
          /\ functions[k].line_end < Len(Lines(content))
          /\ functions[k].complexity >= 1

\* the line of a record, and whether it opens with a receiver clause
RecordLine(k) == Lines(content)[functions[k].line_start]

HasReceiver(line) == StartsWith(TrimStart(Drop(line, 4)), <<"(">>)

\* C7: extracting the Go text `func (r *Repo) Get(id int) string { return "" }`
\* yields a record named Get with is_method true and parameters equal to the
\* two-element list ["id", "int"]; a Go function without a receiver clause
\* has is_method false.
C7_GoMethodExample ==
    (pc = "done" /\ get_extractor(ext) = "GoExtractor") =>
        /\ content = GoMethod =>
              /\ Len(functions) = 1
              /\ functions[1].name = <<"G", "e", "t">>
              /\ functions[1].is_method
              /\ functions[1].parameters = <<<<"i", "d">>, <<"i", "n", "t">>>>
        /\ \A k \in 1..Len(functions) :
              ~HasReceiver(RecordLine(k)) => ~functions[k].is_method

\* what the extractor does on that text, and on the other Go functions
C7_GoMethodAsExtracted ==
    (pc = "done" /\ get_extractor(ext) = "GoExtractor") =>
        /\ content = GoMethod =>
              /\ Len(functions) = 1
              /\ functions[1].name = <<"G", "e", "t">>
              /\ functions[1].is_method
              /\ functions[1].parameters = <<<<"i", "d", " ", "i", "n", "t">>>>
        /\ \A k \in 1..Len(functions) :
              functions[k].is_method <=> HasReceiver(RecordLine(k))

\* the languages whose bodies are delimited by braces
BraceFamily ==
    {"RustExtractor", "JavascriptExtractor", "GoExtractor", "CppExtractor",
     "JavaExtractor", "PhpExtractor", "SwiftExtractor"}

\* the denylist of an extractor
SkipOf(kind) ==
    CASE kind = "JavascriptExtractor" -> JsSkip
      [] kind = "CppExtractor" -> CppSkip
      [] kind = "JavaExtractor" -> JavaSkip
      [] OTHER -> {}

Names == {functions[k].name : k \in 1..Len(functions)}

HasIfLine == \E n \in 1..Len(Lines(content)) : Lines(content)[n] \in IfForms

\* C11: no brace-family extractor returns a record named `if` for an input
\* line of the form `if (x) {` (at any indentation, alone or preceded by
\* else), and the JavaScript, C/C++ and Java-family extractors never return
\* a record whose name is in their own denylist, whichever pattern matched.
C11_DenylistEnforced ==
    pc = "done" =>
        /\ (get_extractor(ext) \in BraceFamily /\ HasIfLine) =>
               <<"i", "f">> \notin Names
        /\ Names \cap SkipOf(get_extractor(ext)) = {}

\* what the denylists do enforce: no record made by a function pattern of
\* the JavaScript, C/C++ and Java-family extractors bears a denied name
C11_FunctionRecordsNotDenied ==
    pc = "done" =>
        /\ \A k \in 1..Len(functions) :
              ~functions[k].is_class =>
                  functions[k].name \notin SkipOf(get_extractor(ext))
        /\ (get_extractor(ext) \in BraceFamily /\ content \in IfForms) =>
              functions = <<>>

\* C12: the list every extractor returns is in non-decreasing line_start
\* order, whether the extractor sorts it (Rust, Python, JavaScript, PHP,
\* Swift, Ruby) or not (Go, C/C++, Java family, Nim).
C12_SortedByLineStart ==
    pc = "done" =>
        \A j \in 1..Len(functions) : \A k \in j..Len(functions) :
            functions[j].line_start <= functions[k].line_start

\* a class record placed before a function record that was pushed before it
C12_Witness ==
    /\ pc = "done"
    /\ get_extractor(ext) \in {"RustExtractor", "JavascriptExtractor"}
    /\ \E j \in 1..Len(functions) : \E k \in (j + 1)..Len(functions) :
          /\ functions[j].is_class /\ ~functions[k].is_class
          /\ functions[j].line_start < functions[k].line_start

C14_ClassFlags ==
    pc = "done" =>
        \A k \in 1..Len(functions) :
            functions[k].is_class =>
                ~functions[k].is_async /\ ~functions[k].is_method

\* a class record beside a method record and an async record
C14_Witness ==
    /\ pc = "done"
    /\ \E k \in 1..Len(functions) : functions[k].is_class
    /\ \E k \in 1..Len(functions) : functions[k].is_method
    /\ \E k \in 1..Len(functions) : functions[k].is_async

-----------------------------------------------------------------------------
(* python.rs: the decorators of a function                                 *)

\* @deco
PyDeco ==
    <<"@", "d", "e", "c", "o">>

\*   @app.route(1)
PyDecoCall ==
    <<" ", " ", "@", "a", "p", "p", ".", "r", "o", "u", "t", "e", "(", "1",
      ")">>

\* a line that holds nothing
PyEmptyLine == <<>>

\* a line that holds two spaces
PySpacesLine ==
    <<" ", " ">>

\* def hello():
PyDefHello ==
    <<"d", "e", "f", " ", "h", "e", "l", "l", "o", "(", ")", ":">>

\* def last():
PyDefLast ==
    <<"d", "e", "f", " ", "l", "a", "s", "t", "(", ")", ":">>

DecoratorLib == {PyDeco, PyDecoCall, PyEmptyLine, PySpacesLine, PyDefHello}

\* most lines above the last signature
MaxDecoLines == 3

\* @deco above def hello():
DecoratorExample == JoinNl(<<PyDeco, PyDefHello>>)

\* the files: at most MaxDecoLines library lines and then a signature
DecoratorFiles ==
    {JoinNl(Append(ls, PyDefLast)) : ls \in SeqUpTo(DecoratorLib, MaxDecoLines)}
    \cup {DecoratorExample}

InitDecorators ==
    /\ pc = "ready" /\ path = <<>> /\ NoMap /\ NoDoc /\ NoScan
    /\ content \in DecoratorFiles
    /\ ext = ".py"
    /\ functions = <<>>
    /\ lines = <<>> /\ start_line = 0 /\ base_indent = 0 /\ line_end = 0
    /\ raw = <<>> /\ params = <<>> /\ block = <<>> /\ cc = 0

ExtractDecorated ==
    /\ pc = "ready"
    /\ functions' = PythonExtractor(content)
    /\ pc' = "done"
    /\ UNCHANGED <<map_vars, doc_vars, scan_vars, path, content, ext, lines, start_line, base_indent, line_end,
                   raw, params, block, cc>>

NextDecorators == ExtractDecorated

SpecDecorators == InitDecorators /\ [][NextDecorators]_vars

(* Reference: the @name lines above a signature                            *)

NameStart == Lower \cup Upper \cup {"_"}

NameRest == Lower \cup Upper \cup Digit \cup {"_", "."}

\* whether the line is of the form @name
IsDecoratorLine(line) ==
    LET t == TrimStart(line)
    IN  Len(t) >= 2 /\ t[1] = "@" /\ t[2] \in NameStart

\* the name of a line of the form @name
DecoratorName(line) ==
    LET t == Drop(TrimStart(line), 1)
    IN  Take(t, RunLength(t, 1, NameRest, TRUE))

\* the names of the @name lines from the line after the nearest line before
\* `first` for which Blank holds (from the first line if there is none) up to
\* the line before `first`, top to bottom
NamesAbove(Blank(_), ls, first) ==
    LET blanks == {n \in 1..(first - 1) : Blank(ls[n])}
        from   == IF blanks = {} THEN 1 ELSE SetMax(blanks) + 1
    IN  Pick([n \in 1..Len(ls) |-> DecoratorName(ls[n])],
             {n \in from..(first - 1) : IsDecoratorLine(ls[n])})

\* a blank line: nothing on it but white space
IsBlankLine(line) == Trim(line) = <<>>

\* an empty line: no character on it
IsEmptyLine(line) == line = <<>>

\* C15: a Python function's decorators are exactly the names of the @name
\* lines between the nearest blank line preceding the signature and the
\* signature, top to bottom; `@deco` directly above `def hello():` gives
\* ["deco"], and a function with no @ line in that segment gets none.
C15_DecoratorsAboveSignature ==
    pc = "done" =>
        /\ \A k \in 1..Len(functions) :
              functions[k].decorators =
                  NamesAbove(IsBlankLine, Lines(content),
                             functions[k].line_start)
        /\ content = DecoratorExample =>
              /\ Len(functions) = 1
              /\ functions[1].decorators = <<<<"d", "e", "c", "o">>>>

\* what the code computes: the segment starts at the nearest empty line, a
\* line of spaces does not end it
C15_DecoratorsSinceEmptyLine ==
    pc = "done" =>
        /\ \A k \in 1..Len(functions) :
              functions[k].decorators =
                  NamesAbove(IsEmptyLine, Lines(content),
                             functions[k].line_start)
        /\ content = DecoratorExample =>
              /\ Len(functions) = 1
              /\ functions[1].decorators = <<<<"d", "e", "c", "o">>>>

\* whether record k lies in the body of the class record c
InBodyOf(c, k) ==
    /\ functions[c].is_class /\ k # c
    /\ functions[c].line_start < functions[k].line_start
    /\ functions[k].line_start <= functions[c].line_end

\* C16: for JavaScript/TypeScript input a class whose body contains method
\* definitions (an indented line `foo(x) {`) yields only the class record:
\* no separate record is produced for a method inside the class body.
C16_OnlyClassRecord ==
    (pc = "done" /\ get_extractor(ext) = "JavascriptExtractor") =>
        /\ content \in JsClassFiles =>
              Len(functions) = 1 /\ functions[1].is_class
        /\ \A c \in 1..Len(functions) : \A k \in 1..Len(functions) :
              ~InBodyOf(c, k)

\* the name the third pattern captures on a member line
MemberName(line) ==
    CASE line = JsMember -> <<"m">>
      [] line = JsStaticGet -> <<"v">>
      [] line = JsAsyncLoad -> <<"l", "o", "a", "d">>
      [] OTHER -> <<>>

\* C16 (amended): the class yields its class record, and every member line
\* of its body whose name is not denied (constructor is) yields a record of
\* its own, on its line, under its name, with is_method and is_class false;
\* is_method is false in every JavaScript record.
C16_MembersGetRecords ==
    (pc = "done" /\ get_extractor(ext) = "JavascriptExtractor") =>
        /\ \A k \in 1..Len(functions) : ~functions[k].is_method
        /\ content \in JsClassFiles =>
              LET ls      == Lines(content)
                  members == {n \in 2..(Len(ls) - 1) : ls[n] # JsConstructor}
              IN  /\ Len(functions) = 1 + Cardinality(members)
                  /\ functions[1].is_class
                  /\ functions[1].name = <<"K">>
                  /\ functions[1].line_start = 1
                  /\ \A n \in members :
                        \E k \in 2..Len(functions) :
                            /\ functions[k].line_start = n
                            /\ functions[k].name = MemberName(ls[n])
                            /\ ~functions[k].is_class
                            /\ functions[k].is_async = (ls[n] = JsAsyncLoad)

\* class K with a constructor and a member m: two records, K and m
C16_Witness ==
    /\ pc = "done" /\ ext = ".js"
    /\ content = JoinNl(<<JsClass, JsConstructor, JsMember, JsClose>>)
    /\ Len(functions) = 2
    /\ functions[1].is_class
    /\ functions[2].name = <<"m">>
    /\ InBodyOf(1, 2)

\* the declaration keyword on the line of record k
KeywordIsMethod(k) ==
    LET t == TrimStart(RecordLine(k))
    IN  StartsWith(t, <<"m", "e", "t", "h", "o", "d">>) /\ t[7] \in WhiteSpace

\* C17: for every Nim record, is_method is true if and only if the matched
\* declaration keyword is `method` (false for proc, func, iterator, macro
\* and template), regardless of the indentation of the declaration line.
C17_NimMethodKeyword ==
    (pc = "done" /\ get_extractor(ext) = "NimExtractor") =>
        \A k \in 1..Len(functions) : functions[k].is_method = KeywordIsMethod(k)

\* what the code computes: is_method is true if and only if the keyword is
\* `method` and the declaration line is not indented
C17_NimMethodUnindented ==
    (pc = "done" /\ get_extractor(ext) = "NimExtractor") =>
        \A k \in 1..Len(functions) :
            functions[k].is_method =
                (KeywordIsMethod(k) /\ LeadingWs(RecordLine(k)) = 0)

\* the extensions that select an extractor
KnownExtensions == {e \in Extensions : get_extractor(e) # "None"}

\* C18: the extractor selected depends only on the lowercased extension of
\* the path (`.RS` selects what `.rs` selects); a path whose extension is
\* unknown or missing selects none and the function list is empty.
C18_SelectionByLowercasedExtension ==
    pc = "done" =>
        /\ functions =
              ExtractWith(get_extractor(ExtensionOf(to_lowercase(path))),
                          content)
        /\ ExtensionOf(to_lowercase(path)) \notin KnownExtensions =>
              functions = <<>>
        /\ path = <<"M", ".", "R", "S">> => functions = RustExtractor(content)
        /\ path = <<"M", ".", "P", "Y">> =>
              functions = PythonExtractor(content)

\* a Rust file named in capitals, with its records
C18_Witness ==
    /\ pc = "done"
    /\ path = <<"M", ".", "R", "S">>
    /\ Len(functions) >= 2
    /\ functions = RustExtractor(content)

\* files without a known extension whose text holds functions: none is
\* returned
C18_WitnessNone ==
    /\ pc = "done"
    /\ path \in {<<"M", "a", "k", "e", "f", "i", "l", "e">>, <<".", "r", "s">>}
    /\ GoExtractor(content) # <<>>
    /\ functions = <<>>

-----------------------------------------------------------------------------
(* LineMap against the linear scan of the former extractor                 *)

MaxMapLen == 6

\* the bytes of the files mapped: a letter and the newline
MapBytes == {"a", NL}

\* every file of at most MaxMapLen bytes
MapTexts == UNION {[1..n -> MapBytes] : n \in 0..MaxMapLen}

InitLineMap ==
    /\ pc = "ready" /\ path = <<>> /\ NoMap /\ NoDoc /\ NoScan
    /\ content \in MapTexts
    /\ lines = <<>> /\ start_line = 0
    /\ Idle

\* LineMap::new(content)
NewLineMap ==
    /\ pc = "ready"
    /\ line_map' = LineMap(content)
    /\ pc' = "built"
    /\ UNCHANGED <<byte_offset, line_number, doc_vars, scan_vars, path, content, ext,
                   functions, lines, start_line, base_indent, line_end, raw,
                   params, block, cc>>

\* line_map.offset_to_line(o), any number of times, for an offset within
\* the content or at its end
OffsetToLine ==
    /\ pc \in {"built", "asked"}
    /\ \E o \in 0..Len(content) :
          /\ byte_offset' = o
          /\ line_number' = offset_to_line(line_map, o)
    /\ pc' = "asked"
    /\ UNCHANGED <<line_map, doc_vars, scan_vars, path, content, ext, functions, lines,
                   start_line, base_indent, line_end, raw, params, block, cc>>

NextLineMap == NewLineMap \/ OffsetToLine

SpecLineMap == InitLineMap /\ [][NextLineMap]_vars

\* offset_to_line of the former extractor: the newlines of content[..offset]
\* counted one by one, plus 1
offset_to_line_scan(text, offset) ==
    Cardinality({q \in 1..offset : text[q] = NL}) + 1

\* C19: for every content and every byte offset o with 0 <= o <= len,
\* offset_to_line(o) is 1 plus the number of newline bytes strictly before
\* o, as the linear scan computes it; the offsets are strictly ascending,
\* start with 0, and are the ones construction produced.
C19_LineMapAgreesWithScan ==
    /\ pc # "ready" =>
          /\ line_map[1] = 0
          /\ \A k \in 1..(Len(line_map) - 1) : line_map[k] < line_map[k + 1]
          /\ {line_map[k] : k \in 1..Len(line_map)}
               = {0} \cup {q \in 1..Len(content) : content[q] = NL}
    /\ pc = "asked" =>
          /\ line_number = offset_to_line_scan(content, byte_offset)
          /\ line_number
               = 1 + Cardinality({q \in 0..(byte_offset - 1) :
                                     content[q + 1] = NL})

\* the offsets are not modified once the map is built
C19_NeverModified == [][pc # "ready" => line_map' = line_map]_vars

\* an offset inside the third line or later, not at the start of a line
C19_Witness ==
    /\ pc = "asked"
    /\ line_number >= 3
    /\ byte_offset < Len(content)
    /\ \A k \in 1..Len(line_map) : line_map[k] # byte_offset

\* the offset of the start of a line after the first, and the end of file
C19_WitnessLineStart ==
    /\ pc = "asked"
    /\ line_number >= 2
    /\ byte_offset = Len(content)
    /\ \E k \in 1..Len(line_map) : line_map[k] = byte_offset

-----------------------------------------------------------------------------
(* String slices and character boundaries: truncated_docstring             *)

\* characters outside ASCII, named by their code point: e with acute,
\* the CJK character for "middle", and an emoji
EAcute == "U+00E9"
Zhong == "U+4E2D"
Grinning == "U+1F600"

\* the bytes 0x80..0xBF that occur in the encodings below
ContinuationBytes == {"0xA9", "0xB8", "0xAD", "0x9F", "0x98", "0x80"}

\* the UTF-8 encoding of one character; an ASCII character is its own byte
Utf8Bytes(c) ==
    CASE c = EAcute -> <<"0xC3", "0xA9">>
      [] c = Zhong -> <<"0xE4", "0xB8", "0xAD">>
      [] c = Grinning -> <<"0xF0", "0x9F", "0x98", "0x80">>
      [] OTHER -> <<c>>

\* the bytes of a string
RECURSIVE Utf8(_)
Utf8(s) ==
    IF Len(s) = 0 THEN <<>>
    ELSE IF Len(s) = 1 THEN Utf8Bytes(s[1])
    ELSE Utf8(Take(s, Len(s) \div 2)) \o Utf8(Drop(s, Len(s) \div 2))

\* str::is_char_boundary
is_char_boundary(bytes, index) ==
    IF index = 0 THEN TRUE
    ELSE IF index >= Len(bytes) THEN index = Len(bytes)
    ELSE bytes[index + 1] \notin ContinuationBytes

\* the outcome of a slice that is not on a character boundary
Panic == "panic"

\* the length from which a docstring is cut
TruncateAt == 100

\* FunctionInfo::truncated_docstring; `&d[..100]` panics when byte 100 is
\* not on a character boundary
truncated_docstring(doc) ==
    IF doc = None THEN None
    ELSE LET d == Utf8(doc[1])
         IN  IF Len(d) > TruncateAt
             THEN IF is_char_boundary(d, TruncateAt)
                  THEN Some(Take(d, TruncateAt) \o <<".", ".", ".">>)
                  ELSE Panic
             ELSE Some(d)

MaxBefore == 4
MaxAfter == 3

\* n times the character c
Repeated(c, n) == [i \in 1..n |-> c]

\* docstrings of TruncateAt - MaxBefore .. TruncateAt letters, then one
\* character of 1 to 4 bytes, then up to MaxAfter letters
DocTexts ==
    {Repeated("a", TruncateAt - b) \o <<c>> \o Repeated("b", n) :
        b \in 0..MaxBefore, c \in {"c", EAcute, Zhong, Grinning},
        n \in 0..MaxAfter}

\* a function whose body opens with a one-line docstring in either quoting
DocBlocks ==
    {<<PyDefF, <<" ", " ", " ", " ">> \o q \o t \o q>> :
        q \in {TripleDouble, TripleSingle}, t \in DocTexts}

InitDocstring ==
    /\ pc = "ready" /\ path = <<>> /\ NoMap /\ NoDoc /\ NoScan
    /\ block \in DocBlocks
    /\ content = <<>> /\ lines = <<>> /\ start_line = 0
    /\ ext = "" /\ functions = <<>> /\ base_indent = 0 /\ line_end = 0
    /\ raw = <<>> /\ params = <<>> /\ cc = 0

\* PythonExtractor::extract: `let docstring = extract_py_docstring(block)`
ExtractPyDocstring ==
    /\ pc = "ready"
    /\ docstring' = extract_py_docstring(block)
    /\ pc' = "extracted"
    /\ UNCHANGED <<truncated, map_vars, scan_vars, path, content, ext, functions, lines,
                   start_line, base_indent, line_end, raw, params, block, cc>>

\* the JSON export of the record: f.truncated_docstring()
TruncatedDocstring ==
    /\ pc = "extracted"
    /\ truncated' = truncated_docstring(docstring)
    /\ pc' = IF truncated_docstring(docstring) = Panic THEN "panic" ELSE "done"
    /\ UNCHANGED <<docstring, map_vars, scan_vars, path, content, ext, functions, lines,
                   start_line, base_indent, line_end, raw, params, block, cc>>

NextDocstring == ExtractPyDocstring \/ TruncatedDocstring

SpecDocstring == InitDocstring /\ [][NextDocstring]_vars

\* C20: no string slice taken while extracting or post-processing records
\* splits a multi-byte character: truncating a docstring longer than 100
\* bytes, slicing after the docstring delimiter and slicing before a match
\* all fall on character boundaries, so none of them fails at run time.
C20_NoSliceSplitsCharacter == pc # "panic" /\ truncated # Panic

\* the bytes of the first n characters of a string
BytesBefore(s, n) == Len(Utf8(Take(s, n)))

\* what the code does: the truncation fails exactly when a character of the
\* docstring begins before byte 100 and ends after it; otherwise a docstring
\* of more than 100 bytes is cut to its first 100 bytes and "..." and a
\* shorter one is returned whole
C20_TruncationFailsOnStraddlingCharacter ==
    pc \in {"done", "panic"} =>
        LET d == docstring[1]
            straddles == \E i \in 1..Len(d) :
                            /\ BytesBefore(d, i - 1) < TruncateAt
                            /\ BytesBefore(d, i) > TruncateAt
        IN  /\ (pc = "panic") = straddles
            /\ pc = "done" /\ Len(Utf8(d)) > TruncateAt =>
                  /\ Len(truncated[1]) = TruncateAt + 3
                  /\ Take(truncated[1], TruncateAt) = Take(Utf8(d), TruncateAt)
            /\ pc = "done" /\ Len(Utf8(d)) <= TruncateAt =>
                  truncated = Some(Utf8(d))

\* the docstring slice after the delimiter: the text between the quotes
C20_DocstringIsTextBetweenQuotes ==
    pc = "extracted" =>
        /\ docstring # None
        /\ \E q \in {TripleDouble, TripleSingle} :
              Trim(block[2]) = q \o docstring[1] \o q

-----------------------------------------------------------------------------
(* run_scan (counter/mod.rs): the files of a directory, processed in        *)
(* sequence or by parallel workers                                          *)

\* sorted_files.len() > 50 selects the parallel path
ParallelThreshold == 50

MaxSmall == 3
MaxExtra == 2
MaxShift == 2

\* what a path can hold: a readable text, a file that cannot be opened, a
\* file whose bytes are not UTF-8 (a UTF-16 text with its byte order mark),
\* and nothing (the path was removed after the listing)
DiskKinds == {"text", "unreadable", "not_utf8", "missing"}

\* A path is represented by its rank in the order of Path::cmp.  The file
\* names and texts of the directory, by rank
ScanNames ==
    <<<<"m", ".", "g", "o">>, <<"M", ".", "J", "S">>, <<"m", ".", "r", "s">>,
      <<"m", ".", "t", "x", "t">>>>

ScanTexts == <<GoTestContent, JsSample, RustSample, GoTestContent>>

NameOfPath(p) == ScanNames[(p % Len(ScanNames)) + 1]

TextOfPath(p) == ScanTexts[(p % Len(ScanTexts)) + 1]

\* the number of lines of every text of the directory
ScanLines == [k \in 1..Len(ScanTexts) |-> Len(Lines(ScanTexts[k]))]

\* ext.extract(&content) for every text of the directory: the records the
\* extractor of the name returns for the text, none for the text without one
ScanRecords ==
    <<<<FunctionInfo(<<"H", "e", "l", "l", "o">>, 3, 3, <<>>,
                     FALSE, FALSE, FALSE, None, <<>>, 1),
        FunctionInfo(<<"G", "e", "t">>, 4, 6, <<<<"i", "d", " ", "i", "n", "t">>>>,
                     FALSE, TRUE, FALSE, None, <<>>, 1)>>,
      <<FunctionInfo(<<"f">>, 1, 5, <<<<"a">>, <<"b">>>>,
                     TRUE, FALSE, FALSE, None, <<>>, 1),
        FunctionInfo(<<"g">>, 2, 5, <<<<"x">>>>,
                     FALSE, FALSE, FALSE, None, <<>>, 1),
        FunctionInfo(<<"m">>, 3, 5, <<<<"y">>>>,
                     FALSE, FALSE, FALSE, None, <<>>, 1),
        FunctionInfo(<<"K">>, 4, 5, <<>>,
                     FALSE, FALSE, TRUE, None, <<>>, 1)>>,
      <<FunctionInfo(<<"a">>, 1, 5,
                     <<<<"x", ":", " ", "u", "8">>,
                       <<"y", ":", " ", "V", "e", "c", "<", "T", ">">>>>,
                     TRUE, FALSE, FALSE, None, <<<<"p", "u", "b">>>>, 3),
        FunctionInfo(<<"b">>, 2, 2, <<>>,
                     FALSE, FALSE, FALSE, None, <<>>, 1),
        FunctionInfo(<<"S">>, 3, 5, <<>>,
                     FALSE, FALSE, TRUE, None, <<>>, 1)>>,
      <<>>>>

\* std::fs::read_to_string(path)
read_to_string(p, d) == IF d[p] = "text" THEN Some(TextOfPath(p)) ELSE None

\* is_binary_file: a file that cannot be opened counts as binary; the
\* texts hold no NUL byte and none has a binary extension
is_binary_file(p, d) == d[p] = "unreadable"

\* analyze_file: the total of lines; (0, ..) when the file cannot be read
analyze_file(p, d) ==
    IF read_to_string(p, d) = None THEN 0
    ELSE ScanLines[(p % Len(ScanTexts)) + 1]

\* the records of the file's extractor whether or not the file was read
extract_file_functions_Unchecked(p, d) ==
    ScanRecords[(p % Len(ScanTexts)) + 1]

\* extract_file_functions: the records of the file's extractor, none when
\* the file cannot be read or has no extractor
extract_file_functions(p, d) ==
    IF read_to_string(p, d) = None THEN <<>>
    ELSE ScanRecords[(p % Len(ScanTexts)) + 1]

FileInfo(p, total, is_binary, fns) ==
    [path |-> p, lines |-> total, is_binary |-> is_binary, functions |-> fns]

\* process_file with function extraction on and no extension filter:
\* Ok(None) for a path that is no file, Ok(Some(fi)) otherwise
process_file(p, d) ==
    IF d[p] = "missing" THEN None
    ELSE LET is_binary == is_binary_file(p, d)
             total == IF is_binary THEN 0 ELSE analyze_file(p, d)
             fns == IF is_binary THEN <<>> ELSE extract_file_functions(p, d)
         IN  Some(FileInfo(p, total, is_binary, fns))

\* a function on 1..n as a sequence whose elements are evaluated once
Vec(f) == SubSeq(f, 1, Len(f))

\* the indices of keys in ascending order of the key, equal keys in the
\* order they have
Ascending(keys) ==
    LET before(i) == Cardinality({j \in 1..Len(keys) :
                        \/ keys[j] < keys[i]
                        \/ keys[j] = keys[i] /\ j < i})
        at == Vec([i \in 1..Len(keys) |-> before(i) + 1])
    IN  Vec([k \in 1..Len(keys) |-> CHOOSE i \in 1..Len(keys) : at[i] = k])

\* sorted_files.sort_unstable(): equal paths are indistinguishable
sort_unstable(ps) ==
    LET idx == Ascending(ps)
    IN  Vec([k \in 1..Len(ps) |-> ps[idx[k]]])

\* a vector of file infos left in the order it has
sort_by_path_KeepOrder(fis) == fis

\* file_infos.sort_by(|a, b| a.path.cmp(&b.path))
sort_by_path(fis) ==
    LET paths == Vec([i \in 1..Len(fis) |-> fis[i].path])
        idx == Ascending(paths)
    IN  Vec([k \in 1..Len(fis) |-> fis[idx[k]]])

\* filter_map(..).collect(): the Some results, in the order given
RECURSIVE FilterMap(_, _)
FilterMap(ps, d) ==
    IF Len(ps) = 0 THEN <<>>
    ELSE IF Len(ps) = 1
         THEN (IF process_file(ps[1], d) = None THEN <<>>
               ELSE <<process_file(ps[1], d)[1]>>)
    ELSE FilterMap(Take(ps, Len(ps) \div 2), d)
            \o FilterMap(Drop(ps, Len(ps) \div 2), d)

\* orders of n items: as they are, reversed, rotated by up to MaxShift, and
\* with the neighbours at up to MaxShift exchanged
Orders(n) ==
    {[i \in 1..n |-> i], [i \in 1..n |-> n + 1 - i]}
    \cup {[i \in 1..n |-> ((i + r - 1) % n) + 1] : r \in 1..MaxShift}
    \cup {[i \in 1..n |-> IF i = s THEN s + 1 ELSE IF i = s + 1 THEN s ELSE i] :
            s \in 1..Min(MaxShift, n - 1)}

Permuted(seq, order) == Vec([i \in 1..Len(seq) |-> seq[order[i]]])

\* the numbers of files of a directory: a few, and just over the threshold
FileCounts ==
    (1..MaxSmall)
    \cup ((ParallelThreshold + 1)..(ParallelThreshold + MaxExtra))

\* every file a readable text, but for at most one among the first ranks
Disks(n) ==
    {[p \in 1..n |-> "text"]}
    \cup {[p \in 1..n |-> IF p = f THEN k ELSE "text"] :
            f \in 1..Min(n, MaxSmall), k \in DiskKinds \ {"text"}}

InitScan ==
    /\ pc = "ready" /\ path = <<>> /\ NoMap /\ NoDoc
    /\ \E n \in FileCounts :
          /\ files \in {Permuted([i \in 1..n |-> i], o) : o \in Orders(n)}
          /\ disk \in Disks(n)
    /\ parallel \in BOOLEAN
    /\ file_infos = <<>>
    /\ content = <<>> /\ lines = <<>> /\ start_line = 0
    /\ Idle

\* run_scan on the sequential path
ScanSequential ==
    /\ pc = "ready"
    /\ ~(parallel /\ Len(files) > ParallelThreshold)
    /\ LET sorted_files == sort_unstable(files)
           collected == FilterMap(sorted_files, disk)
       IN  file_infos' = sort_by_path(collected)
    /\ pc' = "done"
    /\ UNCHANGED <<files, disk, parallel, map_vars, doc_vars, path, content,
                   ext, functions, lines, start_line, base_indent, line_end,
                   raw, params, block, cc>>

\* run_scan on the parallel path: the workers hand over their results in
\* any of the orders; collect is taken to keep the order of handing over
ScanParallel ==
    /\ pc = "ready"
    /\ parallel /\ Len(files) > ParallelThreshold
    /\ \E o \in Orders(Len(files)) :
          LET sorted_files == sort_unstable(files)
              completed == Permuted(sorted_files, o)
              collected == FilterMap(completed, disk)
          IN  file_infos' = sort_by_path(collected)
    /\ pc' = "done"
    /\ UNCHANGED <<files, disk, parallel, map_vars, doc_vars, path, content,
                   ext, functions, lines, start_line, base_indent, line_end,
                   raw, params, block, cc>>

NextScan == ScanSequential \/ ScanParallel

SpecScan == InitScan /\ [][NextScan]_vars

\* what a directory of readable texts gives for a path
InfoOfText(p) ==
    [path |-> p, lines |-> ScanLines[(p % Len(ScanTexts)) + 1],
     is_binary |-> FALSE,
     functions |-> ScanRecords[(p % Len(ScanTexts)) + 1]]

\* the paths of the listing that are files, ascending
Existing ==
    LET ps == {p \in 1..Len(files) : disk[p] # "missing"}
    IN  Vec([k \in 1..Cardinality(ps) |->
                CHOOSE p \in ps : Cardinality({q \in ps : q < p}) = k - 1])

\* C21: run_scan returns the same files on the parallel and on the
\* sequential path and whatever order the workers complete in: they are in
\* ascending path order, one for each path that is a file, and the
\* functions of each are in ascending line_start order.
C21_ScanIsOrdered ==
    pc = "done" =>
        LET existing == Existing
        IN  /\ Len(file_infos) = Len(existing)
            /\ \A k \in 1..Len(file_infos) :
                  /\ file_infos[k].path = existing[k]
                  /\ k > 1 => file_infos[k - 1].path < file_infos[k].path
                  /\ disk[file_infos[k].path] = "text" =>
                        file_infos[k] = InfoOfText(file_infos[k].path)
                  /\ disk[file_infos[k].path] # "text" =>
                        /\ file_infos[k].functions = <<>>
                        /\ file_infos[k].lines = 0
                  /\ \A i \in 1..(Len(file_infos[k].functions) - 1) :
                        file_infos[k].functions[i].line_start
                          <= file_infos[k].functions[i + 1].line_start

\* a scan of more than 50 files on the parallel path, listed out of order,
\* with files that hold several records
C21_Witness ==
    /\ pc = "done"
    /\ parallel /\ Len(files) > ParallelThreshold
    /\ files[1] > files[2]
    /\ Len(file_infos) > ParallelThreshold
    /\ \E k \in 1..Len(file_infos) : Len(file_infos[k].functions) >= 2

\* the paths of the listing that hold a readable text, ascending
Others == SelectSeq(Existing, LAMBDA p : disk[p] = "text")

\* the file infos of the result for such paths
InfosOfOthers == SelectSeq(file_infos, LAMBDA fi : disk[fi.path] = "text")

\* C22: a failure to read or decode one file is isolated to that file: it
\* contributes an empty function list or is omitted, run_scan still
\* returns, and the file info of every other file is what a scan without
\* the failing file gives.
C22_FailureIsIsolated ==
    pc = "done" =>
        /\ \A k \in 1..Len(file_infos) :
              disk[file_infos[k].path] # "text" =>
                  file_infos[k].functions = <<>>
        /\ \A p \in 1..Len(files) :
              disk[p] = "missing" =>
                  \A k \in 1..Len(file_infos) : file_infos[k].path # p
        /\ LET others == Others
           IN  InfosOfOthers = [k \in 1..Len(others) |-> InfoOfText(others[k])]

\* a scan that returned with an undecodable file among files with records
C22_Witness ==
    /\ pc = "done"
    /\ \E p \in 1..Len(files) :
          disk[p] = "not_utf8" /\ ScanRecords[(p % Len(ScanTexts)) + 1] # <<>>
    /\ Len(InfosOfOthers) >= 2
    /\ \E k \in 1..Len(InfosOfOthers) : InfosOfOthers[k].functions # <<>>

\* a scan that returned with a file that cannot be opened
C22_WitnessUnreadable ==
    /\ pc = "done"
    /\ \E k \in 1..Len(file_infos) :
          disk[file_infos[k].path] = "unreadable" /\ file_infos[k].is_binary
    /\ Len(InfosOfOthers) >= 2

-----------------------------------------------------------------------------
(* find_closing_brace: what one line hands to the next                     *)

\* the scanner's locals after the lines start_line..n
Scanned(n) == BraceLoop(lines, Max(start_line, 1), n, ScanInit)

\* the number of characters b on a line
CountOf(line, b) == Cardinality({p \in 1..Len(line) : line[p] = b})

\* a line without quotes, backslashes and slashes
Unquoted(line) == \A p \in 1..Len(line) : line[p] \notin {DQ, SQ, BT, BS, "/"}

\* C23: the string state is carried from a line to the next only for an
\* open backtick literal, which lasts until its closing backtick so that the
\* braces of the lines between are not counted, and for a double-quote or
\* char literal whose line ends with a backslash; any other unterminated
\* literal is reset at the end of its line and the braces of the next line
\* are counted.
C23_StringStateAcrossLines ==
    pc = "done" =>
        \A n \in start_line..Len(lines) :
            LET st   == Scanned(n)
                next == ScanLine(lines, n + 1, st)
            IN  ~st.ret =>
                    /\ st.in_string =>
                          \/ st.string_char = BT
                          \/ /\ st.string_char \in {DQ, SQ}
                             /\ lines[n] # <<>>
                             /\ lines[n][Len(lines[n])] = BS
                    /\ (n < Len(lines) /\ ~next.ret) =>
                          /\ (st.in_string /\ st.string_char = BT
                                /\ CountOf(lines[n + 1], BT) = 0) =>
                                /\ next.depth = st.depth
                                /\ next.in_string
                          /\ (~st.in_string /\ Unquoted(lines[n + 1])) =>
                                next.depth
                                  = st.depth + CountOf(lines[n + 1], "{")
                                      - CountOf(lines[n + 1], "}")
                    /\ (n < Len(lines) /\ ~st.in_string /\ st.started
                          /\ st.depth = 1 /\ lines[n + 1] = <<"}">>) =>
                          next.ret

\* a double-quoted literal left open on the line of the opening brace, and
\* the body closed by the brace of the next line
C23_Witness ==
    /\ pc = "done"
    /\ content = <<"{", DQ, NL, "}">>
    /\ start_line = 1
    /\ line_end = 2

\* a backtick literal open over a line that holds a brace
C23_WitnessBacktick ==
    /\ pc = "done"
    /\ Len(lines) = 3 /\ start_line = 1
    /\ lines[1] = <<"{">> /\ lines[2] = <<BT>> /\ lines[3] = <<"}">>
    /\ Scanned(3).in_string /\ Scanned(3).depth = 1

\* a double-quoted literal carried by a final backslash
C23_WitnessEscape ==
    /\ pc = "done"
    /\ Len(lines) = 3 /\ start_line = 1
    /\ lines[1] = <<"{">> /\ lines[2] = <<DQ, "}", BS>>
    /\ Scanned(2).in_string /\ Scanned(2).string_char = DQ

\* the depth a line adds: its braces outside double quotes and before the
\* line comment
NetDepth(line) ==
    Cardinality({p \in 1..Len(line) :
        line[p] = "{" /\ ~InDoubleQuotes(line, p) /\ p < CommentStart(line)})
    - Cardinality({p \in 1..Len(line) :
        line[p] = "}" /\ ~InDoubleQuotes(line, p) /\ p < CommentStart(line)})

\* C24: braces that follow a // outside any string literal never change the
\* depth for that line; a // inside a string literal does not stop the
\* scan, and braces after the closing quote on that line are counted.
C24_CommentEndsLine ==
    /\ (pc = "done" /\ PlainQuoting(lines)) =>
          \A n \in start_line..Len(lines) :
              LET before == IF n = start_line THEN ScanInit
                            ELSE Scanned(n - 1)
                  st     == ScanLine(lines, n, before)
              IN  ~st.ret => st.depth = before.depth + NetDepth(lines[n])
    /\ (pc = "done" /\ start_line = 1 /\ Len(lines) = 3 /\ lines[1] = <<"{">>
          /\ lines[2] = <<"/", "/", "}">> /\ lines[3] = <<"}">>) =>
          line_end = 3
    /\ (pc = "done" /\ start_line = 1 /\ Len(lines) >= 2 /\ lines[1] = <<"{">>
          /\ lines[2] = <<DQ, "/", "/", DQ, "}">>) =>
          line_end = 2

\* a brace behind a comment marker skipped, the body closed a line later
C24_Witness ==
    /\ pc = "done" /\ start_line = 1 /\ Len(lines) = 3
    /\ lines[1] = <<"{">>
    /\ lines[2] = <<"/", "/", "}">> /\ lines[3] = <<"}">>
    /\ line_end = 3

\* the marker inside a literal, the body closed by the brace behind it
C24_WitnessInString ==
    /\ pc = "done" /\ start_line = 1 /\ Len(lines) = 2
    /\ lines[1] = <<"{">>
    /\ lines[2] = <<DQ, "/", "/", DQ, "}">>
    /\ line_end = 2

\* ---------------------------------------------------------------------------
\* Signature lines with a brace pair, test attributes, async in Swift names
\* ---------------------------------------------------------------------------

\* C25: for a brace-family function whose signature line holds a balanced
\* brace pair before the opening brace of the body (JavaScript
\* `function f({a, b}) {`, Go `func f(x interface{}) {`), line_end is the line
\* of the `}` that closes the body, not the signature line.
C25_EndsAtBodyBrace ==
    (pc = "done" /\ content \in BracePairFiles /\ functions # <<>>) =>
        /\ Trim(Lines(content)[functions[1].line_end]) = <<"}">>
        /\ functions[1].line_end = Len(Lines(content))

\* C25, as the code behaves: the pair on the signature line brings the depth
\* back to zero after the scan has started, and the record ends on the
\* signature line.
C25_EndsOnSignatureLine ==
    (pc = "done" /\ content \in BracePairFiles /\ functions # <<>>) =>
        /\ Len(functions) = 1
        /\ functions[1].line_start = 1
        /\ functions[1].line_end = 1

\* a line that declares a Rust function
FnKeyword ==
    <<"f", "n", " ">>

IsFnLine(line) == Contains(line, FnKeyword)

\* a line that is an attribute
IsAttrLine(line) == StartsWith(Trim(line), <<"#", "[">>)

IsTestAttr(line) == Trim(line) \in {RsTestAttr, RsTokioTestAttr}

\* the attribute lines immediately above line n: the lines m..n-1 that are
\* all attributes
AttrsAbove(ls, n) ==
    {m \in 1..(n - 1) : \A j \in m..(n - 1) : IsAttrLine(ls[j])}

Annotated(ls, n) == \E m \in AttrsAbove(ls, n) : IsTestAttr(ls[m])

Recorded(n) == \E k \in 1..Len(functions) : functions[k].line_start = n

\* C26: the Rust extractor omits a matched fn only when the attribute lines
\* immediately above it include #[test] or #[tokio::test]; a function that is
\* not itself annotated is never omitted because such an attribute appears
\* earlier in the file.
C26_OmitsOnlyAnnotated ==
    (pc = "done" /\ get_extractor(ext) = "RustExtractor"
                 /\ content \in RustAttrFiles) =>
        LET ls == Lines(content)
        IN  \A n \in 1..Len(ls) :
                (IsFnLine(ls[n]) /\ ~Recorded(n)) => Annotated(ls, n)

\* C26, the direction the code keeps: a function directly under a test
\* attribute is omitted.
C26_AnnotatedIsOmitted ==
    (pc = "done" /\ get_extractor(ext) = "RustExtractor"
                 /\ content \in RustAttrFiles) =>
        LET ls == Lines(content)
        IN  \A n \in 2..Len(ls) :
                (IsFnLine(ls[n]) /\ IsTestAttr(ls[n - 1])) => ~Recorded(n)

AsyncKeyword ==
    <<"a", "s", "y", "n", "c", " ">>

\* what follows the parameter list of a signature line: the text after its
\* first closing parenthesis
AfterParams(line) ==
    LET closes == {i \in 1..Len(line) : line[i] = ")"}
    IN  IF closes = {} THEN <<>>
        ELSE Drop(line, CHOOSE i \in closes : \A j \in closes : i <= j)

AsyncFollowsParams(line) ==
    StartsWith(TrimStart(AfterParams(line)), AsyncKeyword)

\* C29: a Swift function record has is_async = true if and only if the async
\* keyword follows the parameter list of its signature; a function whose name
\* or parameter labels only contain the letters async has is_async = false.
C29_AsyncIffKeyword ==
    (pc = "done" /\ get_extractor(ext) = "SwiftExtractor"
                 /\ content \in SwiftAsyncFiles) =>
        \A k \in 1..Len(functions) :
            functions[k].is_async <=> AsyncFollowsParams(RecordLine(k))

\* C29, as the code behaves: is_async is true exactly when the letters async
\* occur in the matched signature.
C29_AsyncIffSubstring ==
    (pc = "done" /\ get_extractor(ext) = "SwiftExtractor"
                 /\ content \in SwiftAsyncFiles) =>
        \A k \in 1..Len(functions) :
            functions[k].is_async <=>
                Contains(RecordLine(k), SubSeq(AsyncKeyword, 1, 5))

\* C30: for every record of every extractor, line_start and line_end never
\* exceed the number of lines of the text, so the slice
\* lines[line_start-1 .. line_end] used for complexity and docstring is in
\* range and is exactly the span of the record.
C30_SpanWithinText ==
    pc = "done" =>
        LET ls == Lines(content)
        IN  \A k \in 1..Len(functions) :
                LET first == functions[k].line_start
                    last  == functions[k].line_end
                IN  /\ first <= Len(ls)
                    /\ last <= Len(ls)
                    /\ BlockOf(ls, first, last) = SubSeq(ls, first, last)
                    /\ Len(BlockOf(ls, first, last)) = last - first + 1

\* a record that runs to the last line of a text of several lines
C30_Witness ==
    /\ pc = "done"
    /\ Len(Lines(content)) > 1
    /\ \E k \in 1..Len(functions) :
          /\ functions[k].line_end = Len(Lines(content))
          /\ functions[k].line_start < functions[k].line_end

\* an unclosed brace body in a text shorter than the fallback span: the
\* record ends on the last line
C30_WitnessFallback ==
    /\ pc = "done"
    /\ get_extractor(ext) \notin {"PythonExtractor", "RubyExtractor"}
    /\ \E k \in 1..Len(functions) :
          /\ functions[k].line_end = Len(Lines(content))
          /\ functions[k].line_end < functions[k].line_start + FallbackSpan
          /\ Trim(Lines(content)[functions[k].line_end]) # <<"}">>

-----------------------------------------------------------------------------
(* python.rs: decorators and the definition above                          *)

\* a line that opens a def or a class
IsDefinitionLine(line) ==
    \/ StartsWith(TrimStart(line), <<"d", "e", "f", " ">>)
    \/ StartsWith(TrimStart(line), <<"c", "l", "a", "s", "s", " ">>)

\* the first line that can hold a decorator of the definition on line
\* `first`: the line after the nearest definition above it
AfterEarlierDefinition(ls, first) ==
    LET earlier == {n \in 1..(first - 1) : IsDefinitionLine(ls[n])}
    IN  IF earlier = {} THEN 1 ELSE SetMax(earlier) + 1

\* the @name lines between the nearest definition above and the signature
OwnDecoratorLines(ls, first) ==
    {n \in AfterEarlierDefinition(ls, first)..(first - 1) :
        IsDecoratorLine(ls[n])}

\* C27: each Python decorator line is attributed only to the definition that
\* directly follows its decorator run: the decorators of a function never
\* hold a decorator written above an earlier def or class, even when no blank
\* line separates the two definitions.
C27_NoDecoratorOfEarlierDefinition ==
    pc = "done" =>
        LET ls == Lines(content)
        IN  \A k \in 1..Len(functions) :
                LET own == OwnDecoratorLines(ls, functions[k].line_start)
                IN  /\ Len(functions[k].decorators) <= Cardinality(own)
                    /\ \A i \in 1..Len(functions[k].decorators) :
                          \E n \in own :
                              DecoratorName(ls[n]) = functions[k].decorators[i]

\* C27, as the code behaves: a decorator of an earlier definition is left out
\* only when an empty line lies between that definition and the signature.
C27_EarlierLeftOutAfterEmptyLine ==
    pc = "done" =>
        LET ls == Lines(content)
        IN  \A k \in 1..Len(functions) :
                LET first == functions[k].line_start
                    from  == AfterEarlierDefinition(ls, first)
                IN  (\E n \in from..(first - 1) : IsEmptyLine(ls[n])) =>
                        /\ Len(functions[k].decorators)
                               <= Cardinality(OwnDecoratorLines(ls, first))
                        /\ \A i \in 1..Len(functions[k].decorators) :
                              \E n \in OwnDecoratorLines(ls, first) :
                                  DecoratorName(ls[n])
                                      = functions[k].decorators[i]

-----------------------------------------------------------------------------
(* find_ruby_end: blocks opened by do                                      *)

\*   items.each do |x|
RbEachDo ==
    <<" ", " ", "i", "t", "e", "m", "s", ".", "e", "a", "c", "h", " ", "d",
      "o", " ", "|", "x", "|">>

\*   run do |a, b|
RbRunDo ==
    <<" ", " ", "r", "u", "n", " ", "d", "o", " ", "|", "a", ",", " ", "b",
      "|">>

\*   3.times do
RbTimesDo ==
    <<" ", " ", "3", ".", "t", "i", "m", "e", "s", " ", "d", "o">>

\*     puts x
RbPuts ==
    <<" ", " ", " ", " ", "p", "u", "t", "s", " ", "x">>

RubyDoOpeners == {RbEachDo, RbRunDo, RbTimesDo}

\* most plain lines before, inside and after a generated do block
MaxDoPlain == 1

RubyDoPlainLines == {RbPuts, RbOne, RbCommentEnd}

\* "def foo\n  items.each do |x|\n    puts x\n  end\nend"
RubyDoExample == <<RbDefFoo, RbEachDo, RbPuts, RbEnd, RbEnd0>>

\* a definition whose body holds one do block: its signature, plain lines, the
\* line that opens the block, the body of the block, the "end" of the block,
\* plain lines, and the definition's own "end"
InitRubyDo ==
    /\ pc = "ready" /\ path = <<>> /\ NoMap /\ NoDoc /\ NoScan
    /\ \E pre \in RubyPrefixes, sig \in RubySignatures, suf \in RubySuffixes,
          opener \in RubyDoOpeners,
          before \in SeqUpTo(RubyDoPlainLines, MaxDoPlain),
          inner \in SeqUpTo(RubyDoPlainLines, MaxDoPlain),
          after \in SeqUpTo(RubyDoPlainLines, MaxDoPlain) :
          /\ block = <<sig>> \o before \o <<opener>> \o inner \o <<RbEnd>>
                         \o after \o <<RbEnd0>>
          /\ lines = pre \o block \o suf
          /\ start_line = Len(pre) + 1
    /\ content = JoinNl(lines)
    /\ ext = "" /\ functions = <<>> /\ base_indent = 0 /\ line_end = 0
    /\ raw = <<>> /\ params = <<>> /\ cc = 0

NextRubyDo == FindRubyEnd

SpecRubyDo == InitRubyDo /\ [][NextRubyDo]_vars

\* the line of the block that opens the do block, and the line of its "end"
DoLine == CHOOSE n \in 1..Len(block) : block[n] \in RubyDoOpeners

DoEnd == CHOOSE n \in 1..Len(block) : n > DoLine /\ block[n] = RbEnd

\* C28: in find_ruby_end every "end" line that closes an inner block is
\* offset by a depth increment counted for the line that opened the block,
\* also when that line ends in `do |args|`: a def that contains
\* `items.each do |x| ... end` has line_end at its own "end", not at the "end"
\* of the block.
C28_DoBlockIsCounted ==
    /\ pc = "done" => line_end = start_line + Len(block) - 1
    /\ (pc = "done" /\ lines = RubyDoExample) => (start_line = 1 /\ line_end = 5)

\* C28, as the code behaves: a line that ends in `do` is counted and the
\* definition ends at its own "end"; a line that ends in `do |args|` is not
\* counted and the definition ends at the "end" of the block.
C28_DoWithArgumentsIsNotCounted ==
    pc = "done" =>
        IF EndsWith(Trim(block[DoLine]), <<" ", "d", "o">>)
        THEN line_end = start_line + Len(block) - 1
        ELSE line_end = start_line + DoEnd - 1

====
